---- MODULE Spec2Model ----
(***************************************************************************)
(* TrackFlow Analytics: the backend of src/backend/server.js.              *)
(*                                                                         *)
(* server.js holds two revisions of the server, one after the other:       *)
(*   "sqlite"  lines 1-607: better-sqlite3, synchronous handlers, no       *)
(*             authentication, sites created without an owner;             *)
(*   "pg"      lines 609-1119: PostgreSQL, async handlers, JWT             *)
(*             authentication, sites owned by a user.                      *)
(* The variable rev says which of the two is running; it never changes.    *)
(*                                                                         *)
(* Time is counted in ticks, TicksPerDay ticks to a calendar day.  Event   *)
(* timestamps are client supplied (tracking-script.js:184) and stored as   *)
(* received.                                                               *)
(*                                                                         *)
(* Both databases enforce the schema: NOT NULL columns and the foreign     *)
(* keys REFERENCES sites(id).  (PostgreSQL always does; better-sqlite3     *)
(* ships SQLite with foreign keys switched on by default.)                 *)
(***************************************************************************)
EXTENDS Integers, Sequences, FiniteSets, Bags, TLC

\* ------------------------------------------------------------- bounds
MaxUsers == 2
MaxSites == 2
MaxEvents == 4
CalcMax == 12
MaxPayments == 1
MaxTicks == 1
MaxTracked == 1
TicksPerDay == 2
\* The clock's first value, late enough for a 90 day window and the one before it.
Now0 == 400

\* ------------------------------------------------- program constants
\* period === '7d' ? 7 : period === '90d' ? 90 : 30
Days7 == 7
Days30 == 30
Days90 == 90
\* const { period = '30d', limit = 10 } = req.query
DefaultLimit == 10

\* An absent (undefined) field of a JSON payload; it is bound as NULL.
Undef == "undefined"
NoSite == 0
NoUser == 0
NoTs == -1
NoAmount == -1
\* null where text is expected (params.get of an absent parameter).  Text is
\* a sequence of one-character strings, so this is no text.
NullText == <<"null">>

\* events.event_type as the data model lists it.
EventTypes ==
    {"pageview", "event", "goal", "identify", "revenue", "engagement",
     "outbound_click", "download", "search"}

VARIABLES
    rev,        \* "sqlite" or "pg": the revision of server.js that runs
    now,        \* the server's clock, in ticks
    users,      \* pg: ids of the rows of table users
    sites,      \* table sites: a set of [id, user_id]
    nextSite,   \* the next fresh site id (uuidv4 never repeats)
    events,     \* table events: a bag of rows (the serial id is left out)
    payments,   \* table payments: a bag of rows
    del,        \* pg: the DELETE /api/sites/:siteId in flight between awaits
    resp,       \* the response to the last request
    calc,       \* the last application of calcChange: [cur, prev, out]
    sent,       \* the tracking script's request to /collect, in flight
    browser     \* the browser the tracking script runs in

vars == <<rev, now, users, sites, nextSite, events, payments, del, resp, calc, sent, browser>>

Callers == 1 .. MaxUsers
SiteIds == 1 .. MaxSites
Periods == {"7d", "30d", "90d"}

NoResp == [ep |-> "none"]
NoDelete == [pc |-> "idle"]
NoCalc == [cur |-> 0, prev |-> 0, out |-> 0]
NoRequest == [pc |-> "none"]

\* ------------------------------------------------------------ helpers
RECURSIVE SumCopies(_, _)
\* COUNT(*) over the rows S of bag b: each row as many times as it is stored.
SumCopies(S, b) ==
    IF S = {} THEN 0
    ELSE LET r == CHOOSE x \in S : TRUE
         IN  CopiesIn(r, b) + SumCopies(S \ {r}, b)

SiteRow(s) == {x \in sites : x.id = s}
SiteExists(s) == SiteRow(s) # {}

\* ----------------------------------------------------- authentication
\* authenticateToken: a token verifies for the users that registered.  The
\* sqlite revision has no middleware: every caller passes.
Authenticated(u) == rev = "sqlite" \/ u \in users

Unauthorized(ep, u, s, arg) ==
    [ep |-> ep, user |-> u, site |-> s, arg |-> arg, status |-> 401,
     body |-> "Unauthorized"]

Reply(ep, u, s, arg, status, body) ==
    [ep |-> ep, user |-> u, site |-> s, arg |-> arg, status |-> status,
     body |-> body]

\* Mutant: the ownership query without AND user_id = $2.
checkSiteAccess_anyOwner(siteId, userId) ==
    \E x \in sites : x.id = siteId

\* SELECT id FROM sites WHERE id = $1 AND user_id = $2
checkSiteAccess(siteId, userId) ==
    \E x \in sites : x.id = siteId /\ x.user_id = userId

\* ------------------------------------------------------- registration
\* POST /api/auth/register: the email is unique; a person registers as
\* the user of the same number.
Register(u) ==
    /\ rev = "pg"
    /\ IF u \in users
       THEN /\ resp' = Reply("register", u, NoSite, Undef, 409, "Email already exists")
            /\ UNCHANGED users
       ELSE /\ users' = users \cup {u}
            /\ resp' = Reply("register", u, NoSite, Undef, 200, "token")
    /\ UNCHANGED <<rev, now, sites, nextSite, events, payments, del, calc, sent, browser>>

\* ------------------------------------------------------ site creation
\* The owner a new site row gets: req.user.id, or NULL in the sqlite revision.
NewSiteOwner(u) == IF rev = "pg" THEN u ELSE NoUser

\* POST /api/sites
CreateSite(u) ==
    /\ nextSite <= MaxSites
    /\ IF ~Authenticated(u)
       THEN /\ resp' = Unauthorized("createSite", u, NoSite, Undef)
            /\ UNCHANGED <<sites, nextSite>>
       ELSE /\ sites' = sites \cup {[id |-> nextSite, user_id |-> NewSiteOwner(u)]}
            /\ nextSite' = nextSite + 1
            /\ resp' = Reply("createSite", u, nextSite, Undef, 200, "created")
    /\ UNCHANGED <<rev, now, users, events, payments, del, calc, sent, browser>>

\* ----------------------------------------------------------------- JSON
\* A payload is a record of the members the handlers bind, each holding its
\* value (or the value that stands for its absence), and of extra, the
\* other members by name.  The value of an extra member is a string, a
\* number (finite or not), null or an object; in JSON text it is a string
\* literal, a numeral (within the range of a double or above it), null or an
\* object literal.
RECURSIVE ParseValue(_)
\* JSON.parse of one value: a numeral above the range of a double is Infinity.
ParseValue(lit) ==
    CASE lit.lit = "string" -> [t |-> "string", s |-> lit.s]
      [] lit.lit = "number" -> [t |-> "number", finite |-> ~lit.big,
                                n |-> IF lit.big THEN 0 ELSE lit.n]
      [] lit.lit = "null" -> [t |-> "null"]
      [] lit.lit = "object" ->
             [t |-> "object",
              props |-> [k \in DOMAIN lit.members |-> ParseValue(lit.members[k])]]

RECURSIVE StringifyValue(_)
\* JSON.stringify of one value: a number that is not finite is written null.
StringifyValue(v) ==
    CASE v.t = "string" -> [lit |-> "string", s |-> v.s]
      [] v.t = "number" -> IF v.finite THEN [lit |-> "number", big |-> FALSE, n |-> v.n]
                           ELSE [lit |-> "null"]
      [] v.t = "null" -> [lit |-> "null"]
      [] v.t = "object" ->
             [lit |-> "object",
              members |-> [k \in DOMAIN v.props |-> StringifyValue(v.props[k])]]

\* express.json(): req.body of an application/json request with this text.
\* The bound members are strings and small integers, which parse to
\* themselves.
JSONparse(text) ==
    [k \in DOMAIN text.known \cup {"extra"} |->
        IF k = "extra" THEN [j \in DOMAIN text.extra |-> ParseValue(text.extra[j])]
        ELSE text.known[k]]

\* Mutant: only the members the handler binds are written.
JSONstringify_known(event) ==
    [known |-> [k \in DOMAIN event \ {"extra"} |-> event[k]], extra |-> <<>>]

\* JSON.stringify(event): every member of the object, in JSON text.
JSONstringify(event) ==
    [known |-> [k \in DOMAIN event \ {"extra"} |-> event[k]],
     extra |-> [j \in DOMAIN event.extra |-> StringifyValue(event.extra[j])]]

\* ---------------------------------------------------------- ingestion
\* The row POST /collect binds from the payload (the columns the queries read).
EventRow(p) ==
    [site_id |-> p.site_id,
     visitor_id |-> p.visitor_id,
     session_id |-> p.session_id,
     event_type |-> p.event_type,
     timestamp |-> p.timestamp,
     path |-> p.path,
     title |-> p.title,
     source |-> p.source,
     medium |-> p.medium,
     utm_source |-> p.utm_source,
     utm_medium |-> p.utm_medium,
     device_type |-> p.deviceType,
     browser |-> p.browser,
     event_data |-> JSONstringify(p)]

\* events: site_id, visitor_id, session_id, event_type, timestamp are NOT NULL.
NotNullOk(r) ==
    /\ r.site_id # NoSite
    /\ r.visitor_id # Undef
    /\ r.session_id # Undef
    /\ r.event_type # Undef
    /\ r.timestamp # NoTs

\* Mutant: the foreign key is not enforced.
FkSiteOk_off(siteId) == TRUE

\* site_id TEXT NOT NULL REFERENCES sites(id), checked at the INSERT.
FkSiteOk(siteId) == SiteExists(siteId)

InsertAccepted(r) == NotNullOk(r) /\ FkSiteOk(r.site_id)

\* POST /collect (public in both revisions): the handler, given the parsed
\* body of the request.
Collect(p) ==
    LET r == EventRow(p)
    IN  /\ IF InsertAccepted(r)
           THEN /\ BagCardinality(events) < MaxEvents
                /\ events' = events (+) SetToBag({r})
                /\ resp' = Reply("collect", NoUser, p.site_id, p, 200, "success")
           ELSE /\ events' = events
                /\ resp' = Reply("collect", NoUser, p.site_id, p, 500,
                                 "Failed to collect event")
        /\ UNCHANGED <<rev, now, users, sites, nextSite, payments, del, calc>>

\* POST /collect sent by a client directly, as application/json.
PostCollect(p) == Collect(p) /\ UNCHANGED <<sent, browser>>

\* ----------------------------------------------------------- payments
\* sqlite: POST /api/sites/:siteId/revenue.  amount is NOT NULL, site_id
\* REFERENCES sites(id), created_at defaults to CURRENT_TIMESTAMP.  The pg
\* revision has no route that writes payments.
PaymentRow(siteId, visitor, amount) ==
    [site_id |-> siteId, visitor_id |-> visitor, amount |-> amount,
     created_at |-> now]

RecordPayment(siteId, visitor, amount) ==
    /\ rev = "sqlite"
    /\ IF amount # NoAmount /\ FkSiteOk(siteId)
       THEN /\ BagCardinality(payments) < MaxPayments
            /\ payments' = payments (+) SetToBag({PaymentRow(siteId, visitor, amount)})
            /\ resp' = Reply("recordRevenue", NoUser, siteId, amount, 200, "success")
       ELSE /\ payments' = payments
            /\ resp' = Reply("recordRevenue", NoUser, siteId, amount, 500,
                             "Failed to record revenue")
    /\ UNCHANGED <<rev, now, users, sites, nextSite, events, del, calc, sent, browser>>

\* ----------------------------------------------------------- deletion
\* DELETE FROM events WHERE site_id = ?
EventsWithout(siteId) ==
    LET S == {r \in BagToSet(events) : r.site_id # siteId}
    IN  [r \in S |-> events[r]]

\* What still references sites(id) = siteId in a table ev of events: the
\* DELETE FROM sites fails on a foreign key while there is any.
Referenced(siteId, ev) ==
    \/ \E r \in BagToSet(ev) : r.site_id = siteId
    \/ \E q \in BagToSet(payments) : q.site_id = siteId

\* sqlite: DELETE /api/sites/:siteId, one synchronous handler, two
\* statements, each committed on its own.
DeleteSiteSqlite(u, s) ==
    /\ rev = "sqlite"
    /\ events' = EventsWithout(s)
    /\ IF SiteExists(s) /\ Referenced(s, EventsWithout(s))
       THEN /\ sites' = sites
            /\ resp' = Reply("deleteSite", u, s, Undef, 500, "Failed to delete site")
       ELSE /\ sites' = sites \ SiteRow(s)
            /\ resp' = Reply("deleteSite", u, s, Undef, 200, "success")
    /\ UNCHANGED <<rev, now, users, nextSite, payments, del, calc, sent, browser>>

\* What DELETE answers a caller who may not delete (pg).
DeleteDenied(u, s) ==
    Reply("deleteSite", u, s, Undef, 404, "Site not found or access denied")

\* pg: what DELETE answers at its ownership check; no answer yet (the empty
\* set) when the caller owns the site and the handler goes on.
DeleteCheckResponses(u, s) ==
    IF ~Authenticated(u) THEN {Unauthorized("deleteSite", u, s, Undef)}
    ELSE IF ~checkSiteAccess(s, u) THEN {DeleteDenied(u, s)}
    ELSE {}

\* pg: DELETE /api/sites/:siteId up to its first await: the ownership check.
DeleteCheck(u, s) ==
    /\ rev = "pg"
    /\ del.pc = "idle"
    /\ IF DeleteCheckResponses(u, s) # {}
       THEN resp' \in DeleteCheckResponses(u, s) /\ del' = del
       ELSE resp' = NoResp /\ del' = [pc |-> "events", user |-> u, site |-> s]
    /\ UNCHANGED <<rev, now, users, sites, nextSite, events, payments, calc, sent, browser>>

\* pg: await query('DELETE FROM events WHERE site_id = $1')
\* del.removed records whether the statement deleted any row.
DeleteEvents ==
    /\ del.pc = "events"
    /\ events' = EventsWithout(del.site)
    /\ del' = [pc |-> "site", user |-> del.user, site |-> del.site,
                removed |-> EventsWithout(del.site) # events]
    /\ resp' = NoResp
    /\ UNCHANGED <<rev, now, users, sites, nextSite, payments, calc, sent, browser>>

\* pg: await query('DELETE FROM sites WHERE id = $1'), then the response.
DeleteSiteRow ==
    /\ del.pc = "site"
    /\ IF SiteExists(del.site) /\ Referenced(del.site, events)
       THEN /\ sites' = sites
            /\ resp' = Reply("deleteSite", del.user, del.site, Undef, 500,
                             "Failed to delete site")
       ELSE /\ sites' = sites \ SiteRow(del.site)
            /\ resp' = Reply("deleteSite", del.user, del.site, Undef, 200, "success")
    /\ del' = NoDelete
    /\ UNCHANGED <<rev, now, users, nextSite, events, payments, calc, sent, browser>>

\* -------------------------------------------------------------- clock
Tick ==
    /\ now < Now0 + MaxTicks
    /\ now' = now + 1
    /\ resp' = NoResp
    /\ UNCHANGED <<rev, users, sites, nextSite, events, payments, del, calc, sent, browser>>

\* ------------------------------------------------------------ windows
\* const days = period === '7d' ? 7 : period === '90d' ? 90 : 30
PeriodDays(period) ==
    IF period = "7d" THEN Days7 ELSE IF period = "90d" THEN Days90 ELSE Days30

\* NOW() - INTERVAL '${days} days'; startDate.setDate(getDate() - days)
WindowStart(period) == now - PeriodDays(period) * TicksPerDay

\* prevStartDate.setDate(prevStartDate.getDate() - days)
PrevWindowStart(period) == WindowStart(period) - PeriodDays(period) * TicksPerDay

\* DATE(timestamp)
DateOf(ts) == ts \div TicksPerDay

\* WHERE site_id = $1 AND event_type = 'pageview' AND timestamp >= <from>
PageviewsSince(s, from) ==
    {r \in BagToSet(events) :
        r.site_id = s /\ r.event_type = "pageview" /\ r.timestamp >= from}

\* ... AND timestamp >= <from> AND timestamp < <to>  (sqlite, previous period)
PageviewsBetween(s, from, to) ==
    {r \in PageviewsSince(s, from) : r.timestamp < to}

\* COUNT(DISTINCT visitor_id), COUNT( * ), COUNT(DISTINCT session_id) over rows S
Visitors(S) == Cardinality({r.visitor_id : r \in S})
Views(S) == SumCopies(S, events)
Sessions(S) == Cardinality({r.session_id : r \in S})
ActiveDays(S) == Cardinality({DateOf(r.timestamp) : r \in S})

\* Math.round(y) for y = num / den, den > 0: the nearest integer, halves up.
MathRound(num, den) == (2 * num + den) \div (2 * den)

\* Mutant: growth from nothing reported as 100 percent.
calcChange_fromZero(current, previous) ==
    IF previous = 0 THEN (IF current = 0 THEN 0 ELSE 1000)
    ELSE MathRound((current - previous) * 1000, previous)

\* calcChange (sqlite), in tenths of a percent:
\*   if (!previous || previous === 0) return 0;
\*   return Math.round(((current - previous) / previous) * 100 * 10) / 10;
calcChange(current, previous) ==
    IF previous = 0 THEN 0
    ELSE MathRound((current - previous) * 1000, previous)

Denied(ep, u, s, arg) == Reply(ep, u, s, arg, 403, "Access denied")

\* The changes member of the stats response.
StatsChanges(cur, prev) ==
    IF rev = "sqlite"
    THEN [visitors |-> calcChange(Visitors(cur), Visitors(prev)),
          pageviews |-> calcChange(Views(cur), Views(prev)),
          sessions |-> calcChange(Sessions(cur), Sessions(prev))]
    ELSE [visitors |-> 0, pageviews |-> 0, sessions |-> 0]

\* The body of a successful GET /api/sites/:siteId/stats.
StatsBody(s, period) ==
    LET cur == PageviewsSince(s, WindowStart(period))
        prev == PageviewsBetween(s, PrevWindowStart(period), WindowStart(period))
    IN  IF rev = "sqlite"
        THEN [unique_visitors |-> Visitors(cur),
              total_pageviews |-> Views(cur),
              total_sessions |-> Sessions(cur),
              active_days |-> ActiveDays(cur),
              changes |-> StatsChanges(cur, prev)]
        ELSE [unique_visitors |-> Visitors(cur),
              total_pageviews |-> Views(cur),
              total_sessions |-> Sessions(cur),
              changes |-> StatsChanges(cur, prev)]

\* Every analytics route of the pg revision starts with authenticateToken
\* and checkSiteAccess; the sqlite revision has neither.
Guarded(ep, u, s, arg, bodies) ==
    IF ~Authenticated(u) THEN {Unauthorized(ep, u, s, arg)}
    ELSE IF rev = "pg" /\ ~checkSiteAccess(s, u) THEN {Denied(ep, u, s, arg)}
    ELSE {Reply(ep, u, s, arg, 200, b) : b \in bodies}

StatsResponses(u, s, period) ==
    Guarded("stats", u, s, period, {StatsBody(s, period)})

\* A read: it answers and writes nothing.
Answer(R) ==
    /\ resp' \in R
    /\ UNCHANGED <<rev, now, users, sites, nextSite, events, payments, del, calc, sent, browser>>

GetStats(u, s, period) == Answer(StatsResponses(u, s, period))

\* ---------------------------------------------------------- timeseries
RECURSIVE Ascending(_)
\* ORDER BY date ASC over distinct dates
Ascending(D) ==
    IF D = {} THEN <<>>
    ELSE LET m == CHOOSE x \in D : \A y \in D : x <= y
         IN  <<m>> \o Ascending(D \ {m})

\* GROUP BY DATE(timestamp): one row for each date that has a pageview.
TimeseriesRow(s, from, d) ==
    LET S == {r \in PageviewsSince(s, from) : DateOf(r.timestamp) = d}
    IN  IF rev = "sqlite"
        THEN [date |-> d, visitors |-> Visitors(S), pageviews |-> Views(S),
              sessions |-> Sessions(S)]
        ELSE [date |-> d, visitors |-> Visitors(S), pageviews |-> Views(S)]

TimeseriesBody(s, period) ==
    LET from == WindowStart(period)
        dates == Ascending({DateOf(r.timestamp) : r \in PageviewsSince(s, from)})
    IN  [i \in 1 .. Len(dates) |-> TimeseriesRow(s, from, dates[i])]

TimeseriesResponses(u, s, period) ==
    Guarded("timeseries", u, s, period, {TimeseriesBody(s, period)})

GetTimeseries(u, s, period) == Answer(TimeseriesResponses(u, s, period))

\* --------------------------------------------------------------- sites
\* s.*, COUNT(DISTINCT e.visitor_id), COUNT(e.id) ... LEFT JOIN events
SiteListRow(x) ==
    LET S == {r \in BagToSet(events) : r.site_id = x.id}
    IN  [id |-> x.id, user_id |-> x.user_id, total_visitors |-> Visitors(S),
         total_events |-> Views(S)]

\* GET /api/sites: WHERE s.user_id = $1 (pg), every site (sqlite)
SiteListResponses(u) ==
    IF ~Authenticated(u) THEN {Unauthorized("sites", u, NoSite, Undef)}
    ELSE {Reply("sites", u, NoSite, Undef, 200,
                {SiteListRow(x) : x \in {y \in sites : rev = "sqlite" \/ y.user_id = u}})}

GetSites(u) == Answer(SiteListResponses(u))

\* GET /api/sites/:siteId: WHERE id = $1 AND user_id = $2 (pg), WHERE id = ? (sqlite)
SiteDetailsResponses(u, s) ==
    LET found == {x \in SiteRow(s) : rev = "sqlite" \/ x.user_id = u}
    IN  IF ~Authenticated(u) THEN {Unauthorized("site", u, s, Undef)}
        ELSE IF found = {} THEN {Reply("site", u, s, Undef, 404, "Site not found")}
        ELSE {Reply("site", u, s, Undef, 200, x) : x \in found}

GetSite(u, s) == Answer(SiteDetailsResponses(u, s))

\* ---------------------------------------------------------- breakdowns
\* The orders of the rows G that ORDER BY key DESC allows, key[r] being the
\* value of the ordering column in row r: rows with equal keys come in any
\* order.
DescOrders(G, key) ==
    LET n == Cardinality(G)
    IN  {q \in [1 .. n -> G] :
            /\ \A i, j \in 1 .. n : i # j => q[i] # q[j]
            /\ \A i \in 1 .. n - 1 : key[q[i]] >= key[q[i + 1]]}

\* LIMIT k
Take(q, n, k) == [i \in 1 .. (IF k < n THEN k ELSE n) |-> q[i]]

\* The ordered and limited results of a grouped query with rows G.
Ranked(G, key, limit) ==
    {Take(q, Cardinality(G), limit) : q \in DescOrders(G, key)}

\* The column pages are ranked by: ORDER BY views DESC.
PagesKey(row) == row.views

\* pages, pg: SELECT path, title, COUNT( * ) as views ... GROUP BY path, title
PagesRowsPg(P) ==
    {[path |-> k[1], title |-> k[2],
      views |-> Views({r \in P : r.path = k[1] /\ r.title = k[2]})] :
        k \in {<<r.path, r.title>> : r \in P}}

\* pages, sqlite: GROUP BY path with title a bare column: SQLite takes it
\* from any one row of the group.  pick[path] is that row's title.
PagesRowsSqlite(P, pick) ==
    {[path |-> x, title |-> pick[x],
      views |-> Views({r \in P : r.path = x}),
      unique_visitors |-> Visitors({r \in P : r.path = x})] :
        x \in {r.path : r \in P}}

PagesRowSets(s, from) ==
    LET P == PageviewsSince(s, from)
        paths == {r.path : r \in P}
        picks == {f \in [paths -> {r.title : r \in P}] :
                     \A x \in paths : \E r \in P : r.path = x /\ r.title = f[x]}
    IN  IF rev = "sqlite" THEN {PagesRowsSqlite(P, f) : f \in picks}
        ELSE {PagesRowsPg(P)}

PagesBodies(s, period, limit) ==
    UNION {Ranked(G, [r \in G |-> PagesKey(r)], limit) :
               G \in PagesRowSets(s, WindowStart(period))}

PagesResponses(u, s, period, limit) ==
    Guarded("pages", u, s, period, PagesBodies(s, period, limit))

GetPages(u, s, period, limit) == Answer(PagesResponses(u, s, period, limit))

\* Mutant: ORDER BY visitors ASC.
VisitorsKey_asc(row) == 0 - row.visitors

\* The column sources, devices and browsers are ranked by: ORDER BY visitors DESC.
VisitorsKey(row) == row.visitors

\* sources: GROUP BY source, medium
SourcesRows(s, from) ==
    LET P == PageviewsSince(s, from)
    IN  {LET S == {r \in P : r.source = k[1] /\ r.medium = k[2]}
         IN  IF rev = "sqlite"
             THEN [source |-> k[1], medium |-> k[2], visitors |-> Visitors(S),
                   pageviews |-> Views(S)]
             ELSE [source |-> k[1], medium |-> k[2], visitors |-> Visitors(S)] :
            k \in {<<r.source, r.medium>> : r \in P}}

SourcesBodies(s, period, limit) ==
    LET G == SourcesRows(s, WindowStart(period))
    IN  Ranked(G, [r \in G |-> VisitorsKey(r)], limit)

SourcesResponses(u, s, period, limit) ==
    Guarded("sources", u, s, period, SourcesBodies(s, period, limit))

GetSources(u, s, period, limit) == Answer(SourcesResponses(u, s, period, limit))

\* devices (sqlite only): GROUP BY device_type and GROUP BY browser, no LIMIT
DeviceRows(P) ==
    {[device_type |-> d, visitors |-> Visitors({r \in P : r.device_type = d})] :
        d \in {r.device_type : r \in P}}

BrowserRows(P) ==
    {[browser |-> b, visitors |-> Visitors({r \in P : r.browser = b})] :
        b \in {r.browser : r \in P}}

DevicesBodies(s, period) ==
    LET P == PageviewsSince(s, WindowStart(period))
    IN  {[devices |-> d, browsers |-> b] :
            d \in DescOrders(DeviceRows(P), [r \in DeviceRows(P) |-> VisitorsKey(r)]),
            b \in DescOrders(BrowserRows(P), [r \in BrowserRows(P) |-> VisitorsKey(r)])}

\* The pg revision has no devices route: Express answers 404 to any caller.
DevicesResponses(u, s, period) ==
    IF rev = "pg" THEN {Reply("devices", u, s, period, 404, "Cannot GET")}
    ELSE Guarded("devices", u, s, period, DevicesBodies(s, period))

GetDevices(u, s, period) == Answer(DevicesResponses(u, s, period))

\* ------------------------------------------------------------ realtime
\* WHERE site_id = $1 AND timestamp >= NOW() - INTERVAL '5 minutes': five
\* minutes are less than a tick, so these are the events stamped with the
\* current tick or a later one.
RecentEvents(s) ==
    {r \in BagToSet(events) : r.site_id = s /\ r.timestamp >= now}

\* pg: GROUP BY visitor_id, path, device_type, country, source
RealtimeRowsPg(R) ==
    {[visitor_id |-> r.visitor_id, path |-> r.path, device_type |-> r.device_type,
      source |-> r.source,
      last_seen |-> CHOOSE m \in {x.timestamp : x \in R} :
          /\ \E x \in R : /\ x.visitor_id = r.visitor_id /\ x.path = r.path
                          /\ x.device_type = r.device_type /\ x.source = r.source
                          /\ x.timestamp = m
          /\ \A x \in R : (/\ x.visitor_id = r.visitor_id /\ x.path = r.path
                           /\ x.device_type = r.device_type /\ x.source = r.source)
                          => x.timestamp <= m] : r \in R}

\* sqlite: GROUP BY visitor_id with MAX(timestamp): the bare columns come
\* from a row that holds the maximum; pick[v] is that row.
RealtimeRowsSqlite(R, pick) ==
    {[visitor_id |-> v, path |-> pick[v].path, title |-> pick[v].title,
      device_type |-> pick[v].device_type, browser |-> pick[v].browser,
      source |-> pick[v].source, last_seen |-> pick[v].timestamp] :
        v \in {r.visitor_id : r \in R}}

\* The visitors list as a set: ORDER BY last_seen DESC LIMIT 20 is left
\* out (fewer than 20 rows are ever stored).
RealtimeBodies(s) ==
    LET R == RecentEvents(s)
        vs == {r.visitor_id : r \in R}
        picks == {f \in [vs -> R] :
                     \A v \in vs : /\ f[v].visitor_id = v
                                   /\ \A x \in R : x.visitor_id = v
                                                   => x.timestamp <= f[v].timestamp}
    IN  IF rev = "sqlite"
        THEN {[count |-> Cardinality(vs), visitors |-> RealtimeRowsSqlite(R, f)] :
                 f \in picks}
        ELSE {[count |-> Cardinality(vs), visitors |-> RealtimeRowsPg(R)]}

RealtimeResponses(u, s) == Guarded("realtime", u, s, Undef, RealtimeBodies(s))

GetRealtime(u, s) == Answer(RealtimeResponses(u, s))

\* ------------------------------------------------------------- revenue
\* p.created_at >= <from>.  pg compares timestamps.  sqlite compares text:
\* created_at is CURRENT_TIMESTAMP's 'YYYY-MM-DD HH:MM:SS' and the bound is
\* toISOString()'s 'YYYY-MM-DDTHH:MM:SS.sssZ', so on equal dates the blank
\* sorts before the 'T' and the payment compares as earlier.
PaymentSince(q, from) ==
    IF rev = "sqlite" THEN DateOf(q.created_at) > DateOf(from)
    ELSE q.created_at >= from

PaymentsSince(s, from) ==
    {q \in BagToSet(payments) : q.site_id = s /\ PaymentSince(q, from)}

RECURSIVE SumAmount(_, _)
\* SUM over payment rows Q of weight[q] times amount, each row as often as stored
SumAmount(Q, weight) ==
    IF Q = {} THEN 0
    ELSE LET q == CHOOSE x \in Q : TRUE
         IN  CopiesIn(q, payments) * weight[q] * q.amount
             + SumAmount(Q \ {q}, weight)

RECURSIVE SumWeight(_, _)
SumWeight(Q, weight) ==
    IF Q = {} THEN 0
    ELSE LET q == CHOOSE x \in Q : TRUE
         IN  CopiesIn(q, payments) * weight[q] + SumWeight(Q \ {q}, weight)

\* LEFT JOIN events e ON p.visitor_id = e.visitor_id AND p.site_id = e.site_id:
\* the events a payment joins (a NULL visitor_id joins none).
JoinedEvents(q) ==
    {e \in BagToSet(events) :
        q.visitor_id # Undef /\ e.visitor_id = q.visitor_id /\ e.site_id = q.site_id}

\* Mutant: an inner join; a payment that joins no event gives no row.
JoinRows_inner(q, src) ==
    IF JoinedEvents(q) = {} THEN 0
    ELSE Views({e \in JoinedEvents(q) : e.source = src})

\* How many joined rows of payment q carry source src; an unjoined payment
\* gives one row with source NULL (Undef).
JoinRows(q, src) ==
    IF JoinedEvents(q) = {} THEN (IF src = Undef THEN 1 ELSE 0)
    ELSE Views({e \in JoinedEvents(q) : e.source = src})

\* GROUP BY e.source: SUM(p.amount) as revenue, COUNT(p.id) as payments
BySourceRows(s, from) ==
    LET Q == PaymentsSince(s, from)
        srcs == {e.source : e \in UNION {JoinedEvents(q) : q \in Q}}
                \cup (IF \E q \in Q : JoinedEvents(q) = {} THEN {Undef} ELSE {})
    IN  {[source |-> src,
          revenue |-> SumAmount(Q, [q \in Q |-> JoinRows(q, src)]),
          payments |-> SumWeight(Q, [q \in Q |-> JoinRows(q, src)])] : src \in srcs}

RevenueKey(row) == row.revenue

\* stats: SUM(amount), COUNT( * ) ... GROUP BY currency.  One currency is
\* modelled, and AVG(amount), the quotient of the two, is left out.
RevenueStatsRows(s, from) ==
    LET Q == PaymentsSince(s, from)
    IN  IF Q = {} THEN <<>>
        ELSE <<[total_revenue |-> SumAmount(Q, [q \in Q |-> 1]),
                total_payments |-> SumWeight(Q, [q \in Q |-> 1])]>>

RevenueBodies(s, period) ==
    LET from == WindowStart(period)
    IN  {[stats |-> RevenueStatsRows(s, from), bySource |-> b] :
            b \in DescOrders(BySourceRows(s, from),
                              [r \in BySourceRows(s, from) |-> RevenueKey(r)])}

RevenueResponses(u, s, period) ==
    Guarded("revenue", u, s, period, RevenueBodies(s, period))

GetRevenue(u, s, period) == Answer(RevenueResponses(u, s, period))

\* ------------------------------------------------------ specifications
\* A payload of the tracking script with the given identity fields and the
\* rest as a first visit of the home page sends them.
Payload(siteId, visitor, session, type, ts) ==
    [site_id |-> siteId, visitor_id |-> visitor, session_id |-> session,
     event_type |-> type, timestamp |-> ts, path |-> "/", title |-> "Home",
     source |-> "direct", medium |-> "none",
     utm_source |-> NullText, utm_medium |-> NullText,
     deviceType |-> "desktop", browser |-> "chrome", extra |-> <<>>]

\* The payloads sent to /collect: well-formed pageviews for each site id, and
\* for site 1 a payload with each required field missing and one with an
\* event_type outside the enum.
Payloads ==
    {Payload(s, "v1", "a", "pageview", Now0) : s \in SiteIds}
    \cup {Payload(NoSite, "v1", "a", "pageview", Now0),
          Payload(1, Undef, "a", "pageview", Now0),
          Payload(1, "v1", Undef, "pageview", Now0),
          Payload(1, "v1", "a", Undef, Now0),
          Payload(1, "v1", "a", "pageview", NoTs),
          Payload(1, "v1", "a", "bogus", Now0)}

\* The requests of Spec ask for the default period and limit.
MainPeriods == {"30d"}
MainLimits == {DefaultLimit}
PaidAmount == 5
MaxSent == 2
MaxVisits == 2

\* No value in storage: getItem answers null.
NoId == "null"

\* The script's config object as each page load creates it.
DefaultConfig == [siteId |-> NoSite, respectDNT |-> TRUE, trackPageviews |-> TRUE]

\* A browser profile before its first page load: empty localStorage
\* (visitor), no tab open (visit 0, session the tab's sessionStorage), no
\* id generated, Do Not Track off, an ordinary user agent and page,
\* navigator.sendBeacon present; log is the events sent so far, each with
\* the visit it was sent in.
NewBrowser ==
    [visitor |-> NoId, session |-> NoId, visit |-> 0, ids |-> 0,
     config |-> DefaultConfig, loaded |-> FALSE,
     navDnt |-> FALSE, winDnt |-> FALSE, ua |-> "ordinary", hostname |-> "site",
     sendBeacon |-> TRUE,
     log |-> <<>>]

Init ==
    /\ rev \in {"sqlite", "pg"}
    /\ now = Now0
    /\ users = {}
    /\ sites = {}
    /\ nextSite = 1
    /\ events = EmptyBag
    /\ payments = EmptyBag
    /\ del = NoDelete
    /\ resp = NoResp
    /\ calc = NoCalc
    /\ sent = NoRequest
    /\ browser = NewBrowser

Next ==
    \/ \E u \in Callers : Register(u)
    \/ \E u \in Callers : CreateSite(u)
    \/ \E p \in Payloads : PostCollect(p)
    \/ \E s \in SiteIds, v \in {"v1", Undef}, a \in {PaidAmount, NoAmount} :
          RecordPayment(s, v, a)
    \/ \E u \in Callers, s \in SiteIds : DeleteSiteSqlite(u, s)
    \/ \E u \in Callers, s \in SiteIds : DeleteCheck(u, s)
    \/ DeleteEvents
    \/ DeleteSiteRow
    \/ Tick
    \/ \E u \in Callers : GetSites(u)
    \/ \E u \in Callers, s \in SiteIds : GetSite(u, s)
    \/ \E u \in Callers, s \in SiteIds, period \in MainPeriods : GetStats(u, s, period)
    \/ \E u \in Callers, s \in SiteIds, period \in MainPeriods : GetTimeseries(u, s, period)
    \/ \E u \in Callers, s \in SiteIds, period \in MainPeriods, k \in MainLimits :
          GetPages(u, s, period, k)
    \/ \E u \in Callers, s \in SiteIds, period \in MainPeriods, k \in MainLimits :
          GetSources(u, s, period, k)
    \/ \E u \in Callers, s \in SiteIds, period \in MainPeriods : GetDevices(u, s, period)
    \/ \E u \in Callers, s \in SiteIds : GetRealtime(u, s)
    \/ \E u \in Callers, s \in SiteIds, period \in MainPeriods : GetRevenue(u, s, period)

Spec == Init /\ [][Next]_vars

\* ------------------------------------------- SpecCalc: calcChange alone
\* One application of calcChange (sqlite, GET stats) to given counts.
ApplyCalcChange(current, previous) ==
    /\ rev = "sqlite"
    /\ calc' = [cur |-> current, prev |-> previous,
                out |-> calcChange(current, previous)]
    /\ UNCHANGED <<rev, now, users, sites, nextSite, events, payments, del, resp, sent, browser>>

NextCalc == \E c \in 0 .. CalcMax, p \in 0 .. CalcMax : ApplyCalcChange(c, p)

SpecCalc == Init /\ [][NextCalc]_vars

\* ------------------------------- SpecStats: the windows of one site
\* The length of the 7 day window in ticks.
Week == Days7 * TicksPerDay

\* Visits: visitor v1 in sessions a and b, visitor v2 in session c.
Visits == {<<"v1", "a">>, <<"v1", "b">>, <<"v2", "c">>}

\* Pageviews of site 1 stamped in the previous 7 day window, on the first
\* tick of the current one and on its last day; one stamped before both
\* windows, two more on the last day, one stamped by a clock that runs
\* ahead; a custom event; a pageview of site 2.
StatsPayloads ==
    {Payload(1, v[1], v[2], "pageview", ts) :
        v \in Visits, ts \in {Now0 - Week - 1, Now0 - Week, Now0 - 1}}
    \cup {Payload(1, "v1", "a", "pageview", Now0 - 2 * Week - 1),
          Payload(1, "v2", "c", "pageview", Now0 - 2),
          Payload(1, "v1", "a", "pageview", Now0 + 2),
          Payload(1, "v1", "a", "event", Now0 - 1),
          Payload(2, "v1", "a", "pageview", Now0 - 1)}

StatsPeriods == {"7d", "90d"}

NextStats ==
    \/ Register(1)
    \/ CreateSite(1)
    \/ \E p \in StatsPayloads : PostCollect(p)
    \/ Tick
    \/ \E period \in StatsPeriods : GetStats(1, 1, period)
    \/ \E period \in StatsPeriods : GetTimeseries(1, 1, period)

SpecStats == Init /\ [][NextStats]_vars

\* ------------------------------ SpecBreakdown: the grouped queries
\* Pageviews of site 1 on the last day by two visitors, on two pages, coming
\* directly on a desktop or from a search on a phone.
BreakdownPayloads ==
    {[Payload(1, v, "a", "pageview", Now0 - 1) EXCEPT
        !.path = x[1], !.title = x[2],
        !.source = y[1], !.medium = y[2], !.deviceType = y[3], !.browser = y[4]] :
        v \in {"v1", "v2"},
        x \in {<<"/", "Home">>, <<"/pricing", "Pricing">>},
        y \in {<<"direct", "none", "desktop", "chrome">>,
               <<"google", "organic", "mobile", "safari">>}}

BreakdownLimits == {1, DefaultLimit}

NextBreakdown ==
    \/ Register(1)
    \/ CreateSite(1)
    \/ \E p \in BreakdownPayloads : PostCollect(p)
    \/ \E k \in BreakdownLimits : GetPages(1, 1, "30d", k)
    \/ \E k \in BreakdownLimits : GetSources(1, 1, "30d", k)
    \/ GetDevices(1, 1, "30d")

SpecBreakdown == Init /\ [][NextBreakdown]_vars

\* ------------------------------ SpecTitles: one page under two titles
\* Pageviews of site 1 on the last day by two visitors: the home page sent
\* under two document titles, and the pricing page, directly or from a search.
TitledPayloads ==
    {[Payload(1, v, "a", "pageview", Now0 - 1) EXCEPT
        !.path = x[1], !.title = x[2], !.source = y[1], !.medium = y[2]] :
        v \in {"v1", "v2"},
        x \in {<<"/", "Home">>, <<"/", "Welcome">>, <<"/pricing", "Pricing">>},
        y \in {<<"direct", "none">>, <<"google", "organic">>}}

NextTitles ==
    \/ Register(1)
    \/ CreateSite(1)
    \/ \E p \in TitledPayloads : PostCollect(p)
    \/ GetPages(1, 1, "30d", DefaultLimit)
    \/ GetSources(1, 1, "30d", DefaultLimit)

SpecTitles == Init /\ [][NextTitles]_vars

\* ----------------------------------------------- tracking script: text
\* Text the tracking script inspects is a sequence of one-character strings,
\* so that a pattern is found inside a hostname exactly where its characters are.

\* The strings of getReferrer, as sequences of characters.
Txt ==
    [www |-> <<"w", "w", "w", ".">>,
     direct |-> <<"d", "i", "r", "e", "c", "t">>,
     none |-> <<"n", "o", "n", "e">>,
     unknown |-> <<"u", "n", "k", "n", "o", "w", "n">>,
     social |-> <<"s", "o", "c", "i", "a", "l">>,
     organic |-> <<"o", "r", "g", "a", "n", "i", "c">>,
     referral |-> <<"r", "e", "f", "e", "r", "r", "a", "l">>,
     facebook |-> <<"f", "a", "c", "e", "b", "o", "o", "k">>,
     twitter |-> <<"t", "w", "i", "t", "t", "e", "r">>,
     linkedin |-> <<"l", "i", "n", "k", "e", "d", "i", "n">>,
     instagram |-> <<"i", "n", "s", "t", "a", "g", "r", "a", "m">>,
     reddit |-> <<"r", "e", "d", "d", "i", "t">>,
     youtube |-> <<"y", "o", "u", "t", "u", "b", "e">>,
     tiktok |-> <<"t", "i", "k", "t", "o", "k">>,
     google |-> <<"g", "o", "o", "g", "l", "e">>,
     bing |-> <<"b", "i", "n", "g">>,
     duckduckgo |-> <<"d", "u", "c", "k", "d", "u", "c", "k", "g", "o">>,
     yahoo |-> <<"y", "a", "h", "o", "o">>,
     baidu |-> <<"b", "a", "i", "d", "u">>,
     producthunt |-> <<"p", "r", "o", "d", "u", "c", "t", "h", "u", "n", "t">>,
     hackernews |-> <<"h", "a", "c", "k", "e", "r", "n", "e", "w", "s">>,
     newsletter |-> <<"n", "e", "w", "s", "l", "e", "t", "t", "e", "r">>,
     email |-> <<"e", "m", "a", "i", "l">>]

\* The first position at which the characters pat occur in s, 0 if none.
IndexOf(s, pat) ==
    LET at == {i \in 1 .. (Len(s) - Len(pat) + 1) : SubSeq(s, i, i + Len(pat) - 1) = pat}
    IN  IF at = {} THEN 0 ELSE CHOOSE i \in at : \A j \in at : i <= j

\* /pat/i.test(s) for a pattern of literal characters (hostnames are lower case)
RegexTest(pat, s) == IndexOf(s, pat) # 0

\* s.replace(pat, ''): the first occurrence of pat, wherever it is, removed
ReplaceFirst(s, pat) ==
    LET i == IndexOf(s, pat)
    IN  IF i = 0 THEN s
        ELSE SubSeq(s, 1, i - 1) \o SubSeq(s, i + Len(pat), Len(s))

\* The tests of getReferrer in the order it tries them: the alternatives of
\* each regular expression, and the source and medium it returns on a match.
ReferrerRules ==
    <<[pats |-> {<<"f", "a", "c", "e", "b", "o", "o", "k", ".", "c", "o", "m">>, <<"f", "b", ".", "c", "o", "m">>},
       source |-> Txt.facebook, medium |-> Txt.social],
      [pats |-> {<<"t", "w", "i", "t", "t", "e", "r", ".", "c", "o", "m">>, <<"x", ".", "c", "o", "m">>, <<"t", ".", "c", "o">>},
       source |-> Txt.twitter, medium |-> Txt.social],
      [pats |-> {<<"l", "i", "n", "k", "e", "d", "i", "n", ".", "c", "o", "m">>},
       source |-> Txt.linkedin, medium |-> Txt.social],
      [pats |-> {<<"i", "n", "s", "t", "a", "g", "r", "a", "m", ".", "c", "o", "m">>},
       source |-> Txt.instagram, medium |-> Txt.social],
      [pats |-> {<<"r", "e", "d", "d", "i", "t", ".", "c", "o", "m">>},
       source |-> Txt.reddit, medium |-> Txt.social],
      [pats |-> {<<"y", "o", "u", "t", "u", "b", "e", ".", "c", "o", "m">>},
       source |-> Txt.youtube, medium |-> Txt.social],
      [pats |-> {<<"t", "i", "k", "t", "o", "k", ".", "c", "o", "m">>},
       source |-> Txt.tiktok, medium |-> Txt.social],
      [pats |-> {<<"g", "o", "o", "g", "l", "e", ".">>},
       source |-> Txt.google, medium |-> Txt.organic],
      [pats |-> {<<"b", "i", "n", "g", ".", "c", "o", "m">>},
       source |-> Txt.bing, medium |-> Txt.organic],
      [pats |-> {<<"d", "u", "c", "k", "d", "u", "c", "k", "g", "o", ".", "c", "o", "m">>},
       source |-> Txt.duckduckgo, medium |-> Txt.organic],
      [pats |-> {<<"y", "a", "h", "o", "o", ".">>},
       source |-> Txt.yahoo, medium |-> Txt.organic],
      [pats |-> {<<"b", "a", "i", "d", "u", ".", "c", "o", "m">>},
       source |-> Txt.baidu, medium |-> Txt.organic],
      [pats |-> {<<"p", "r", "o", "d", "u", "c", "t", "h", "u", "n", "t", ".", "c", "o", "m">>},
       source |-> Txt.producthunt, medium |-> Txt.referral],
      [pats |-> {<<"h", "a", "c", "k", "e", "r", "n", "e", "w", "s">>, <<"n", "e", "w", "s", ".", "y", "c", "o", "m", "b", "i", "n", "a", "t", "o", "r">>},
       source |-> Txt.hackernews, medium |-> Txt.referral]>>

\* ------------------------------------------- tracking script: getReferrer
\* document.referrer as getReferrer sees it: '' (kind "empty"), a string
\* new URL() rejects (kind "malformed"), or a URL with its url.hostname.
NoReferrer == [kind |-> "empty", hostname |-> <<>>]
MalformedReferrer == [kind |-> "malformed", hostname |-> <<>>]
UrlReferrer(hostname) == [kind |-> "url", hostname |-> hostname]

\* The rules whose regular expression matches the hostname, by position.
MatchedRules(hostname) ==
    {i \in DOMAIN ReferrerRules :
        \E pat \in ReferrerRules[i].pats : RegexTest(pat, hostname)}

\* The body of the try block: url.hostname.replace('www.', ''), the first
\* test that matches, else the default referral.
RuleResult(ref) ==
    LET hostname == ReplaceFirst(ref.hostname, Txt.www)
        M == MatchedRules(hostname)
    IN  IF M # {}
        THEN LET i == CHOOSE x \in M : \A y \in M : x <= y
             IN  [source |-> ReferrerRules[i].source,
                  medium |-> ReferrerRules[i].medium, referrer |-> ref]
        ELSE [source |-> hostname, medium |-> Txt.referral, referrer |-> ref]

\* getReferrer
getReferrer(ref) ==
    IF ref.kind = "empty"
    THEN [source |-> Txt.direct, medium |-> Txt.none, referrer |-> [kind |-> "null"]]
    ELSE IF ref.kind = "malformed"
    THEN [source |-> Txt.unknown, medium |-> Txt.unknown, referrer |-> ref]
    ELSE RuleResult(ref)

\* getUTMParams: params.get of location.search, null for an absent parameter.
\* search is the query string as [utm_source, utm_medium].
getUTMParams(search) ==
    [utm_source |-> search.utm_source, utm_medium |-> search.utm_medium]

\* ---------------------------------------------- tracking script: sendEvent
\* The payload sendEvent builds: the identity fields, the page, then the
\* members of getReferrer(), getUTMParams() and getDeviceInfo() spread in.
sendEventPayload(siteId, visitor, session, eventType, ref, search) ==
    [site_id |-> siteId, visitor_id |-> visitor, session_id |-> session,
     event_type |-> eventType, timestamp |-> now, path |-> "/", title |-> "Home",
     source |-> getReferrer(ref).source,
     medium |-> getReferrer(ref).medium,
     referrer |-> getReferrer(ref).referrer,
     utm_source |-> getUTMParams(search).utm_source,
     utm_medium |-> getUTMParams(search).utm_medium,
     deviceType |-> "desktop", browser |-> "chrome", extra |-> <<>>]

\* sendEvent: navigator.sendBeacon(endpoint, JSON.stringify(payload)) posts
\* the string as text/plain; the fetch fallback posts it as application/json.
\* One request is in flight at a time.
SendEvent(siteId, visitor, session, eventType, ref, search, beacon) ==
    /\ sent = NoRequest
    /\ BagCardinality(events) < MaxTracked
    /\ sent' = [pc |-> "sent",
                body |-> sendEventPayload(siteId, visitor, session, eventType, ref, search),
                json |-> ~beacon, ref |-> ref, search |-> search]
    /\ UNCHANGED <<rev, now, users, sites, nextSite, events, payments, del, resp, calc,
                   browser>>

\* What express.json() leaves in req.body of a request that is not
\* application/json: an object without members.
EmptyBody ==
    [site_id |-> NoSite, visitor_id |-> Undef, session_id |-> Undef,
     event_type |-> Undef, timestamp |-> NoTs, path |-> Undef, title |-> Undef,
     source |-> NullText, medium |-> NullText, utm_source |-> NullText,
     utm_medium |-> NullText, deviceType |-> Undef, browser |-> Undef,
     extra |-> <<>>]

\* app.use(express.json()): req.body of the request
ParsedBody(req) == IF req.json THEN req.body ELSE EmptyBody

\* The request reaches the server: POST /collect with its parsed body.
Deliver ==
    /\ sent.pc = "sent"
    /\ Collect(ParsedBody(sent))
    /\ sent' = NoRequest
    /\ UNCHANGED browser

\* --------------------------------- SpecTracker: the script and /collect
\* The referrer hostnames tried.
Host ==
    [www_google_com |-> <<"w", "w", "w", ".", "g", "o", "o", "g", "l", "e", ".", "c", "o", "m">>,
     google_co_uk |-> <<"g", "o", "o", "g", "l", "e", ".", "c", "o", ".", "u", "k">>,
     news_ycombinator_com |-> <<"n", "e", "w", "s", ".", "y", "c", "o", "m", "b", "i", "n", "a", "t", "o", "r", ".", "c", "o", "m">>,
     facebook_com |-> <<"f", "a", "c", "e", "b", "o", "o", "k", ".", "c", "o", "m">>,
     www_fb_com |-> <<"w", "w", "w", ".", "f", "b", ".", "c", "o", "m">>,
     x_com |-> <<"x", ".", "c", "o", "m">>,
     t_co |-> <<"t", ".", "c", "o">>,
     bing_com |-> <<"b", "i", "n", "g", ".", "c", "o", "m">>,
     producthunt_com |-> <<"p", "r", "o", "d", "u", "c", "t", "h", "u", "n", "t", ".", "c", "o", "m">>,
     example_com |-> <<"e", "x", "a", "m", "p", "l", "e", ".", "c", "o", "m">>,
     www_example_com |-> <<"w", "w", "w", ".", "e", "x", "a", "m", "p", "l", "e", ".", "c", "o", "m">>,
     netflix_com |-> <<"n", "e", "t", "f", "l", "i", "x", ".", "c", "o", "m">>,
     microsoft_com |-> <<"m", "i", "c", "r", "o", "s", "o", "f", "t", ".", "c", "o", "m">>,
     awww_org |-> <<"a", "w", "w", "w", ".", "o", "r", "g">>]

\* The referrers visitors arrive with: none, one the URL parser rejects,
\* hosts the rules name, other hosts, and hosts that only contain a name
\* of the rules or 'www.' inside.
Referrers ==
    {NoReferrer, MalformedReferrer}
    \cup {UrlReferrer(h) : h \in {Host.www_google_com,
                               Host.google_co_uk,
                               Host.news_ycombinator_com,
                               Host.facebook_com,
                               Host.www_fb_com,
                               Host.x_com,
                               Host.t_co,
                               Host.bing_com,
                               Host.producthunt_com,
                               Host.example_com,
                               Host.www_example_com,
                               Host.netflix_com,
                               Host.microsoft_com,
                               Host.awww_org}}

\* location.search: untagged, or tagged utm_source=newsletter&utm_medium=email
Searches ==
    {[utm_source |-> NullText, utm_medium |-> NullText],
     [utm_source |-> Txt.newsletter, utm_medium |-> Txt.email]}

NextTracker ==
    \/ Register(1)
    \/ CreateSite(1)
    \/ \E ref \in Referrers, search \in Searches, beacon \in BOOLEAN :
          SendEvent(1, "v1", "a", "pageview", ref, search, beacon)
    \/ Deliver
    \/ \E k \in MainLimits : GetSources(1, 1, "30d", k)

SpecTracker == Init /\ [][NextTracker]_vars

\* ------------------------------------ SpecRevenue: payments and sources
\* Events of site 1: visitor v1 arriving directly, then from google, then
\* (stamped after the clock's first value) from bing; visitor v2 arriving
\* directly; an event sent without a source.
RevenuePayloads ==
    {[Payload(1, "v1", "a", "pageview", Now0 - 2) EXCEPT !.source = "direct"],
     [Payload(1, "v1", "b", "pageview", Now0 - 1) EXCEPT
         !.source = "google", !.medium = "organic"],
     [Payload(1, "v1", "c", "pageview", Now0 + 1) EXCEPT
         !.source = "bing", !.medium = "organic"],
     [Payload(1, "v2", "d", "pageview", Now0 - 1) EXCEPT !.source = "direct"],
     [Payload(1, "v4", "e", "pageview", Now0 - 1) EXCEPT !.source = Undef]}

\* Who pays: a visitor with events, one with an event without a source, one
\* without events, and a payment without visitor_id.
Payers == {"v1", "v2", "v4", "v3", Undef}

NextRevenue ==
    \/ Register(1)
    \/ CreateSite(1)
    \/ \E p \in RevenuePayloads : PostCollect(p)
    \/ \E v \in Payers, a \in {PaidAmount, NoAmount} : RecordPayment(1, v, a)
    \/ Tick
    \/ \E period \in MainPeriods : GetRevenue(1, 1, period)

SpecRevenue == Init /\ [][NextRevenue]_vars

\* ------------------------------------------------ funnel (from the spec)
\* The funnel analyzer is not in server.js; it is modelled from section 4.4
\* of the specification.  A step is [type, value]: it matches the events of
\* that event_type on the page value.
StepMatches(step, e) == e.event_type = step.type /\ e.path = step.value

\* The distinct visitors of site s with an event in the window of the
\* period (start inclusive, now exclusive) that matches the step.
StepVisitors(s, period, step) ==
    {e.visitor_id : e \in {x \in BagToSet(events) :
        /\ x.site_id = s
        /\ x.timestamp >= WindowStart(period) /\ x.timestamp < now
        /\ StepMatches(step, x)}}

\* Mutant: step i counted on its own, not among the visitors of step i - 1.
FunnelVisitors_alone(s, period, steps, i) == StepVisitors(s, period, steps[i])

RECURSIVE FunnelVisitors(_, _, _, _)
\* Sequential set narrowing: V0 matches step 0; Vi is the visitors of V(i-1)
\* that also match step i.  (Steps are numbered from 1 here.)
FunnelVisitors(s, period, steps, i) ==
    IF i = 1 THEN StepVisitors(s, period, steps[1])
    ELSE FunnelVisitors(s, period, steps, i - 1) \cap StepVisitors(s, period, steps[i])

\* Mutant: the drop-off computed from a previous count of 0 like any other.
Dropoff_noGuard(previous, current) ==
    MathRound((previous - current) * 100, IF previous = 0 THEN 1 ELSE previous)

\* round((|V(i-1)| - |Vi|) / |V(i-1)| * 100), and 100 when |V(i-1)| = 0
Dropoff(previous, current) ==
    IF previous = 0 THEN 100
    ELSE MathRound((previous - current) * 100, previous)

\* The ordered sequence of {step_label, count, dropoff_percent}.
FunnelBody(s, period, steps) ==
    [i \in 1 .. Len(steps) |->
        [step_label |-> steps[i].value,
         count |-> Cardinality(FunnelVisitors(s, period, steps, i)),
         dropoff_percent |->
             IF i = 1 THEN 0
             ELSE Dropoff(Cardinality(FunnelVisitors(s, period, steps, i - 1)),
                          Cardinality(FunnelVisitors(s, period, steps, i)))]]

\* Fewer than 2 steps fail with InvalidFunnelError.
FunnelResponses(u, s, period, steps) ==
    IF Len(steps) < 2
    THEN {Reply("funnel", u, s, [period |-> period, steps |-> steps], 400,
                "InvalidFunnelError")}
    ELSE {Reply("funnel", u, s, [period |-> period, steps |-> steps], 200,
                FunnelBody(s, period, steps))}

GetFunnel(u, s, period, steps) == Answer(FunnelResponses(u, s, period, steps))

\* One drop-off computed from two counts.
ApplyDropoff(previous, current) ==
    /\ current <= previous
    /\ calc' = [cur |-> current, prev |-> previous,
                out |-> Dropoff(previous, current), applied |-> "Dropoff"]
    /\ UNCHANGED <<rev, now, users, sites, nextSite, events, payments, del, resp, sent, browser>>

\* ------------------------------------------- SpecFunnel: funnels of a site
StepHome == [type |-> "pageview", value |-> "/"]
StepPricing == [type |-> "pageview", value |-> "/pricing"]
StepSignup == [type |-> "event", value |-> "/signup"]

\* The funnels asked for: two and three steps, a step nobody matches first
\* or last, and one step only.
Funnels ==
    {<<StepHome, StepPricing>>, <<StepPricing, StepHome>>,
     <<StepHome, StepPricing, StepHome>>, <<StepSignup, StepHome, StepPricing>>,
     <<StepHome, StepSignup>>, <<StepHome>>}

\* Visitors v1 and v2 on the home page and v1 on the pricing page yesterday;
\* v3 on the pricing page yesterday and on the home page before the window.
FunnelPayloads ==
    {[Payload(1, "v1", "a", "pageview", Now0 - 1) EXCEPT !.path = x] :
        x \in {"/", "/pricing"}}
    \cup {Payload(1, "v2", "a", "pageview", Now0 - 1),
          [Payload(1, "v3", "a", "pageview", Now0 - 1) EXCEPT !.path = "/pricing"],
          Payload(1, "v3", "a", "pageview", Now0 - Days30 * TicksPerDay - 1)}

\* The counts of a previous step that drop-offs are computed from.
PreviousCounts == {0, 3, 10}

NextFunnel ==
    \/ Register(1)
    \/ CreateSite(1)
    \/ \E p \in FunnelPayloads : PostCollect(p)
    \/ \E steps \in Funnels : GetFunnel(1, 1, "30d", steps)
    \/ \E p \in PreviousCounts, c \in 0 .. CalcMax : ApplyDropoff(p, c)

SpecFunnel == Init /\ [][NextFunnel]_vars

\* --------------------------------------------- retention (from the spec)
\* The retention cohort analyzer is not in server.js; it is modelled from
\* section 4.5 of the specification.
RetentionWeeks == 8

\* The start of the calendar week containing ts.
WeekStart(ts) == ts - (ts % Week)

SiteEvents(s) == {e \in BagToSet(events) : e.site_id = s}

SiteVisitors(s) == {e.visitor_id : e \in SiteEvents(s)}

\* Mutant: the visitor's latest event taken for the first.
FirstSeen_last(s, v) ==
    LET ts == {e.timestamp : e \in {x \in SiteEvents(s) : x.visitor_id = v}}
    IN  CHOOSE x \in ts : \A y \in ts : y <= x

\* The timestamp of the visitor's first-ever event for the site.
FirstSeen(s, v) ==
    LET ts == {e.timestamp : e \in {x \in SiteEvents(s) : x.visitor_id = v}}
    IN  CHOOSE x \in ts : \A y \in ts : x <= y

\* cohort_week
CohortWeek(s, v) == WeekStart(FirstSeen(s, v))

\* weeks_later = floor((activity_week - cohort_week) / 7 days)
WeeksLater(s, e) == (WeekStart(e.timestamp) - CohortWeek(s, e.visitor_id)) \div Week

\* The distinct visitors grouped under (cohort_week, weeks_later).
Retained(s, week, offset) ==
    {e.visitor_id : e \in {x \in SiteEvents(s) :
        CohortWeek(s, x.visitor_id) = week /\ WeeksLater(s, x) = offset}}

\* percent of cohort size, rounded to the nearest integer
RetentionPercent(retained, size) == MathRound(retained * 100, size)

\* One {cohort_week, cohort_size, retention} per cohort week that has a
\* visitor and lies within the trailing 8 weeks.
RetentionBody(s) ==
    LET weeks == {w \in {CohortWeek(s, v) : v \in SiteVisitors(s)} :
                     w >= WeekStart(now) - RetentionWeeks * Week}
        size(w) == Cardinality(Retained(s, w, 0))
        offsets(w) == {WeeksLater(s, e) : e \in {x \in SiteEvents(s) :
                          CohortWeek(s, x.visitor_id) = w}}
    IN  {[cohort_week |-> w, cohort_size |-> size(w),
          retention |-> [k \in offsets(w) |->
              RetentionPercent(Cardinality(Retained(s, w, k)), size(w))]] :
         w \in weeks}

GetRetention(u, s) ==
    Answer({Reply("retention", u, s, [weeks |-> RetentionWeeks], 200, RetentionBody(s))})

\* One retention percentage computed from a cohort's size and the number of
\* its visitors active in a later week.
ApplyRetention(retained, size) ==
    /\ retained <= size
    /\ calc' = [cur |-> retained, prev |-> size,
                out |-> RetentionPercent(retained, size), applied |-> "Retention"]
    /\ UNCHANGED <<rev, now, users, sites, nextSite, events, payments, del, resp, sent, browser>>

\* ------------------------------------- SpecRetention: cohorts of a site
\* The start of the week of Now0.
ThisWeek == WeekStart(Now0)

\* v1 first seen last week and back this week; v2 seen last week only, on
\* two days; v3 first seen this week; v4 first seen nine weeks ago and back
\* this week.
RetentionPayloads ==
    {Payload(1, "v1", "a", "pageview", ThisWeek - Week + 2),
     Payload(1, "v1", "b", "pageview", ThisWeek + 3),
     Payload(1, "v2", "a", "pageview", ThisWeek - Week + 3),
     Payload(1, "v2", "b", "pageview", ThisWeek - Week + 5),
     Payload(1, "v3", "a", "pageview", ThisWeek + 2),
     Payload(1, "v4", "a", "pageview", ThisWeek - (RetentionWeeks + 1) * Week + 1),
     Payload(1, "v4", "b", "pageview", ThisWeek + 1)}

\* The cohort sizes that percentages are computed for.
CohortSizes == {3, 5}

NextRetention ==
    \/ Register(1)
    \/ CreateSite(1)
    \/ \E p \in RetentionPayloads : PostCollect(p)
    \/ GetRetention(1, 1)
    \/ \E n \in CohortSizes, k \in 0 .. CalcMax : ApplyRetention(k, n)

SpecRetention == Init /\ [][NextRetention]_vars

\* ----------------------------------------- tracking script: the browser
\* generateId: a random version 4 UUID; the ids drawn are taken to differ.
generateId(b) == <<"id1", "id2", "id3", "id4">>[b.ids + 1]

\* getVisitorId: the id in localStorage, generated and stored if there is none.
getVisitorId(b) ==
    IF b.visitor # NoId THEN b
    ELSE [b EXCEPT !.visitor = generateId(b), !.ids = @ + 1]

\* getSessionId: the same with the tab's sessionStorage.
getSessionId(b) ==
    IF b.session # NoId THEN b
    ELSE [b EXCEPT !.session = generateId(b), !.ids = @ + 1]

\* The user agents tried.
UserAgents ==
    [ordinary |-> <<"M", "o", "z", "i", "l", "l", "a">>,
     googlebot |-> <<"G", "o", "o", "g", "l", "e", "b", "o", "t">>,
     adsbot |-> <<"A", "d", "s", "B", "o", "t">>]

\* s in lower case (the i flag of a regular expression).
LowerCase(s) ==
    LET upper == <<"A", "B", "C", "D", "E", "F", "G", "H", "I", "J", "K", "L", "M", "N", "O", "P", "Q", "R", "S", "T", "U", "V", "W", "X", "Y", "Z">>
        lower == <<"a", "b", "c", "d", "e", "f", "g", "h", "i", "j", "k", "l", "m", "n", "o", "p", "q", "r", "s", "t", "u", "v", "w", "x", "y", "z">>
    IN  [i \in DOMAIN s |->
            LET at == {j \in DOMAIN upper : upper[j] = s[i]}
            IN  IF at = {} THEN s[i] ELSE lower[CHOOSE j \in at : TRUE]]

\* /bot|crawler|spider|crawling/i
BotPatterns ==
    {<<"b", "o", "t">>, <<"c", "r", "a", "w", "l", "e", "r">>, <<"s", "p", "i", "d", "e", "r">>, <<"c", "r", "a", "w", "l", "i", "n", "g">>}

\* Mutant: Do Not Track is not looked at.
shouldTrack_noDNT(b) ==
    /\ ~\E pat \in BotPatterns : RegexTest(pat, LowerCase(UserAgents[b.ua]))
    /\ b.hostname \notin {"localhost", "127.0.0.1"}

\* shouldTrack
shouldTrack(b) ==
    /\ ~(b.config.respectDNT /\ (b.navDnt \/ b.winDnt))
    /\ ~\E pat \in BotPatterns : RegexTest(pat, LowerCase(UserAgents[b.ua]))
    /\ b.hostname \notin {"localhost", "127.0.0.1"}

\* { ...a, ...b }
Merge(a, b) ==
    [k \in DOMAIN a \cup DOMAIN b |-> IF k \in DOMAIN b THEN b[k] ELSE a[k]]

\* The payload with ...eventData spread in last: a member of eventData
\* replaces the payload's member of that name, the others are extra members.
SpreadEventData(payload, eventData) ==
    [k \in DOMAIN payload |->
        IF k = "extra" THEN [j \in DOMAIN eventData \ DOMAIN payload |-> eventData[j]]
        ELSE IF k \in DOMAIN eventData THEN eventData[k]
        ELSE payload[k]]

\* The page the script runs on has no referrer and no query string.
PlainSearch == [utm_source |-> NullText, utm_medium |-> NullText]

\* sendEvent(eventType, eventData) run in browser b by the named caller:
\* nothing happens unless shouldTrack() and a site id is configured; else
\* the ids are read (and created), the payload is built and posted (sent
\* holds the latest request).
sendEvent(b, eventType, eventData, caller) ==
    /\ IF ~shouldTrack(b) \/ b.config.siteId = NoSite
       THEN sent' = sent /\ browser' = b
       ELSE LET b2 == getSessionId(getVisitorId(b))
                payload == SpreadEventData(
                               sendEventPayload(b2.config.siteId, b2.visitor, b2.session,
                                                eventType, NoReferrer, PlainSearch),
                               eventData)
            IN  /\ Len(b.log) < MaxSent
                /\ sent' = [pc |-> "sent", body |-> payload, json |-> ~b.sendBeacon,
                            ref |-> NoReferrer, search |-> PlainSearch,
                            caller |-> caller]
                /\ browser' = [b2 EXCEPT !.log =
                                  Append(@, [visit |-> b2.visit,
                                             visitor_id |-> payload.visitor_id,
                                             session_id |-> payload.session_id])]
    /\ UNCHANGED <<rev, now, users, sites, nextSite, events, payments, del, resp, calc>>

\* The user's settings and the page before the first tab is opened.
Environment(navDnt, winDnt, ua, hostname) ==
    /\ browser.visit = 0
    /\ browser' = [browser EXCEPT !.navDnt = navDnt, !.winDnt = winDnt,
                                  !.ua = ua, !.hostname = hostname]
    /\ UNCHANGED <<rev, now, users, sites, nextSite, events, payments, del, resp, calc, sent>>

\* A new visit: a tab with empty sessionStorage; localStorage is the profile's.
OpenTab ==
    /\ browser.visit < MaxVisits
    /\ browser' = [browser EXCEPT !.visit = @ + 1, !.session = NoId,
                                  !.loaded = FALSE, !.config = DefaultConfig]
    /\ UNCHANGED <<rev, now, users, sites, nextSite, events, payments, del, resp, calc, sent>>

\* A page load in the tab: the script runs, config is the default with the
\* site id of the data-site attribute (null without one), and init() calls
\* trackPageview().
PageLoad(dataSite) ==
    /\ browser.visit > 0
    /\ sendEvent([browser EXCEPT !.loaded = TRUE,
                                 !.config = [DefaultConfig EXCEPT !.siteId = dataSite]],
                 "pageview", <<>>, "init")

\* trackPageview
trackPageview(caller) ==
    /\ browser.loaded
    /\ browser.config.trackPageviews
    /\ sendEvent(browser, "pageview", <<>>, caller)

\* history.pushState, replaceState and popstate call trackPageview.
Navigate == trackPageview("navigation")

\* A click on a link to another host.
ClickOutbound ==
    /\ browser.loaded
    /\ sendEvent(browser, "outbound_click",
                 [outbound_host |-> [t |-> "string", s |-> "other.example"]], "click")

\* beforeunload and pagehide: trackTimeOnPage after a second or more.
Unload ==
    /\ browser.loaded
    /\ sendEvent(browser, "engagement",
                 [duration_seconds |-> [t |-> "number", finite |-> TRUE, n |-> 5]],
                 "unload")

\* TrackFlow.track(name, properties) and TrackFlow.trackEvent
trackEvent(properties) ==
    /\ browser.loaded
    /\ sendEvent(browser, "event",
                 Merge([event_name |-> [t |-> "string", s |-> "signup"]], properties),
                 "track")

\* TrackFlow.trackGoal(goalId, revenue = null)
trackGoal ==
    /\ browser.loaded
    /\ sendEvent(browser, "goal",
                 [goal_id |-> [t |-> "string", s |-> "g1"], revenue |-> [t |-> "null"]],
                 "trackGoal")

\* TrackFlow.identify(userId, traits)
identify(traits) ==
    /\ browser.loaded
    /\ sendEvent(browser, "identify",
                 Merge([user_id |-> [t |-> "string", s |-> "u1"]], traits), "identify")

\* TrackFlow.revenue(amount, currency, metadata)
revenue(metadata) ==
    /\ browser.loaded
    /\ sendEvent(browser, "revenue",
                 Merge([amount |-> [t |-> "number", finite |-> TRUE, n |-> PaidAmount],
                        currency |-> [t |-> "string", s |-> "USD"]], metadata),
                 "revenue")

\* TrackFlow.config(options): Object.assign(config, options)
configure(options) ==
    /\ browser.loaded
    /\ browser' = [browser EXCEPT !.config = Merge(@, options)]
    /\ UNCHANGED <<rev, now, users, sites, nextSite, events, payments, del, resp, calc, sent>>

\* ------------------------------ SpecScript: the script in one browser
\* The objects a caller passes as properties, traits or metadata: none, a
\* member of its own, and members named like those of the payload.
CallerObjects ==
    {<<>>,
     [plan |-> [t |-> "string", s |-> "pro"]],
     [visitor_id |-> "someone"],
     [session_id |-> "sometime"],
     [event_type |-> "pageview"],
     [site_id |-> 2]}

\* The browsers tried: an ordinary one, Do Not Track on in navigator or in
\* window, two crawlers, a page served from localhost or 127.0.0.1.
Environments ==
    {<<FALSE, FALSE, "ordinary", "site">>,
     <<TRUE, FALSE, "ordinary", "site">>,
     <<FALSE, TRUE, "ordinary", "site">>,
     <<FALSE, FALSE, "googlebot", "site">>,
     <<FALSE, FALSE, "adsbot", "site">>,
     <<FALSE, FALSE, "ordinary", "localhost">>,
     <<FALSE, FALSE, "ordinary", "127.0.0.1">>}

NextScript ==
    \/ \E e \in Environments : Environment(e[1], e[2], e[3], e[4])
    \/ OpenTab
    \/ \E dataSite \in {NoSite, 1} : PageLoad(dataSite)
    \/ Navigate
    \/ ClickOutbound
    \/ Unload
    \/ trackPageview("trackPageview")
    \/ \E o \in CallerObjects : trackEvent(o)
    \/ trackGoal
    \/ \E o \in CallerObjects : identify(o)
    \/ \E o \in CallerObjects : revenue(o)
    \/ \E o \in {[respectDNT |-> FALSE], [siteId |-> 1], [trackPageviews |-> FALSE]} :
          configure(o)

SpecScript == Init /\ [][NextScript]_vars

\* ------------------------------- SpecRaw: payloads with extra members
\* The JSON text of a payload with the given extra members.
RawText(p, lits) ==
    [known |-> [k \in DOMAIN p \ {"extra"} |-> p[k]], extra |-> lits]

\* Extra members as the tracking script and other clients send them: none,
\* a goal id, a duration, a numeral above the range of a double, a null
\* user id, and an event_data object of the payload's own.
ExtraMembers ==
    {<<>>,
     [goal_id |-> [lit |-> "string", s |-> "g1"]],
     [duration_seconds |-> [lit |-> "number", big |-> FALSE, n |-> 5]],
     [weight |-> [lit |-> "number", big |-> TRUE, n |-> 0]],
     [user_id |-> [lit |-> "null"]],
     [event_data |-> [lit |-> "object",
                      members |-> [plan |-> [lit |-> "string", s |-> "pro"]]]]}

\* A well-formed pageview of site 1, and one without a visitor_id, each
\* with each choice of extra members.
RawBodies ==
    {RawText(p, x) :
        p \in {Payload(1, "v1", "a", "pageview", Now0),
               Payload(1, Undef, "a", "pageview", Now0)},
        x \in ExtraMembers}

\* POST /collect with a JSON text as its body.
PostRaw(text) == PostCollect(JSONparse(text))

NextRaw ==
    \/ Register(1)
    \/ CreateSite(1)
    \/ \E text \in RawBodies : PostRaw(text)
    \/ GetStats(1, 1, "30d")

SpecRaw == Init /\ [][NextRaw]_vars

\* =====================================================================
\* Claims
\* =====================================================================
AggregationEndpoints ==
    {"stats", "timeseries", "pages", "sources", "devices", "realtime", "revenue"}

\* The caller of the last response is not the owner of the site it asked
\* for, a site that holds events.
NonOwnerAsked ==
    /\ resp.ep \in AggregationEndpoints
    /\ SiteExists(resp.site)
    /\ \A x \in SiteRow(resp.site) : x.user_id # resp.user
    /\ \E r \in BagToSet(events) : r.site_id = resp.site

\* C1: on every aggregation endpoint, a request for an existing site by a
\* user who is not its owner is refused: it never gets a 200 with values
\* computed from the site's events or payments.
C1_NonOwnerRefused == NonOwnerAsked => resp.status # 200

\* What a caller sees of a response.
Seen(R) == {[status |-> r.status, body |-> r.body] : r \in R}

OwnedBySomeoneElse(s, u) ==
    \E x \in SiteRow(s) : x.user_id \in Callers /\ x.user_id # u

\* C2: on every site-scoped endpoint (site details, site deletion, each
\* aggregation endpoint) a caller gets the same answer for a site id that
\* does not exist as for an existing site that someone else owns.
C2_NotFoundLikeNotYours ==
    \A u \in Callers, s1 \in SiteIds, s2 \in SiteIds :
        (~SiteExists(s1) /\ OwnedBySomeoneElse(s2, u)) =>
            /\ Seen(SiteDetailsResponses(u, s1)) = Seen(SiteDetailsResponses(u, s2))
            /\ (rev = "pg" =>
                   Seen(DeleteCheckResponses(u, s1)) = Seen(DeleteCheckResponses(u, s2)))
            /\ DeleteCheckResponses(u, s2) # {}
            /\ \A period \in Periods, k \in MainLimits :
                /\ Seen(StatsResponses(u, s1, period)) = Seen(StatsResponses(u, s2, period))
                /\ Seen(TimeseriesResponses(u, s1, period))
                       = Seen(TimeseriesResponses(u, s2, period))
                /\ Seen(PagesResponses(u, s1, period, k))
                       = Seen(PagesResponses(u, s2, period, k))
                /\ Seen(SourcesResponses(u, s1, period, k))
                       = Seen(SourcesResponses(u, s2, period, k))
                /\ Seen(DevicesResponses(u, s1, period))
                       = Seen(DevicesResponses(u, s2, period))
                /\ Seen(RealtimeResponses(u, s1)) = Seen(RealtimeResponses(u, s2))
                /\ Seen(RevenueResponses(u, s1, period))
                       = Seen(RevenueResponses(u, s2, period))

\* C2's case: a registered caller was just refused a site that someone else
\* owns and that holds events, while another site id does not exist.
C2_Witness ==
    /\ resp.ep \in AggregationEndpoints \cup {"site", "deleteSite"}
    /\ resp.user \in users
    /\ OwnedBySomeoneElse(resp.site, resp.user)
    /\ resp.status \in {403, 404}
    /\ \E r \in BagToSet(events) : r.site_id = resp.site
    /\ \E s \in SiteIds : ~SiteExists(s)

\* C3: every stored event carries the id of an existing site, and a /collect
\* call for a site id that matches no site is answered with an error (its
\* row is not stored).
C3_EventsReferenceSites ==
    /\ \A r \in BagToSet(events) : SiteExists(r.site_id)
    /\ (resp.ep = "collect" /\ ~SiteExists(resp.site)) => resp.status = 500

\* C3's case: a payload complete in every required field was just refused
\* because its site, which had events, has been deleted.
C3_Witness ==
    /\ resp.ep = "collect"
    /\ resp.status = 500
    /\ NotNullOk(EventRow(resp.arg))
    /\ ~SiteExists(resp.site)
    /\ resp.site < nextSite
    /\ events # EmptyBag

\* A payload with the five required fields present and of the right shape.
WellFormed(p) == NotNullOk(EventRow(p)) /\ p.event_type \in EventTypes

\* C4: a /collect call whose payload lacks a required field, or carries an
\* event_type outside the enum, is answered with an error.
C4_MalformedRejected ==
    (resp.ep = "collect" /\ ~WellFormed(resp.arg)) => resp.status # 200

\* The events of site s lose a row in this step.
LosesEvents(s) ==
    \E r \in BagToSet(events) : r.site_id = s /\ CopiesIn(r, events') < CopiesIn(r, events)

LosesPayments(s) ==
    \E q \in BagToSet(payments) :
        q.site_id = s /\ CopiesIn(q, payments') < CopiesIn(q, payments)

\* C5: a delete that reports success leaves no site row, no event and no
\* payment of the site; and events and payments of a site disappear only in
\* a delete that also removes the site (for the pg handler, which deletes
\* in two awaited statements: only in a delete still in flight or one that
\* removes the site).
C5_DestroyedOnlyWithSite ==
    [][/\ (resp'.ep = "deleteSite" /\ resp'.status = 200) =>
            /\ \A x \in sites' : x.id # resp'.site
            /\ \A r \in BagToSet(events') : r.site_id # resp'.site
            /\ \A q \in BagToSet(payments') : q.site_id # resp'.site
       /\ \A s \in SiteIds :
            (LosesEvents(s) \/ LosesPayments(s)) =>
                ((\A x \in sites' : x.id # s) \/ del'.pc = "site")]_vars

\* The window of a period as the data model states it: from its start
\* (inclusive) to now (exclusive).
InWindow(s, period) ==
    {r \in BagToSet(events) :
        /\ r.site_id = s /\ r.event_type = "pageview"
        /\ r.timestamp >= WindowStart(period) /\ r.timestamp < now}

\* C6: the stats response counts the site's pageviews stamped inside the
\* window, start inclusive and now exclusive, each once (pageviews), their
\* distinct visitor_ids (unique_visitors) and session_ids (sessions), and
\* nothing else.
C6_StatsCountWindow ==
    (resp.ep = "stats" /\ resp.status = 200 /\ SiteExists(resp.site)) =>
        LET W == InWindow(resp.site, resp.arg)
        IN  /\ resp.body.total_pageviews = SumCopies(W, events)
            /\ resp.body.unique_visitors = Cardinality({r.visitor_id : r \in W})
            /\ resp.body.total_sessions = Cardinality({r.session_id : r \in W})

\* C7: delta(x, 0) = 0 for every x.
C7_DeltaFromZero == calc.prev = 0 => calc.out = 0

\* C7's case: calcChange was applied to a positive count and a previous
\* count of 0.
C7_Witness == calc.prev = 0 /\ calc.cur > 0 /\ calc.out = 0

\* delta(current, previous) of the specification, in tenths of a percent:
\* round((current - previous) / previous * 100, 1), and 0 when previous is 0.
Delta(current, previous) ==
    IF previous = 0 THEN 0
    ELSE (2000 * (current - previous) + previous) \div (2 * previous)

\* The window before the current one: as long, and ending where it starts.
InPreviousWindow(s, period) ==
    {r \in BagToSet(events) :
        /\ r.site_id = s /\ r.event_type = "pageview"
        /\ r.timestamp >= WindowStart(period) - PeriodDays(period) * TicksPerDay
        /\ r.timestamp < WindowStart(period)}

\* C8: the changes of the stats response are delta(count of the current
\* window as the response reports it, count of the previous window), for
\* visitors, pageviews and sessions.
C8_ChangesAreDeltas ==
    (resp.ep = "stats" /\ resp.status = 200 /\ SiteExists(resp.site)) =>
        LET P == InPreviousWindow(resp.site, resp.arg)
        IN  /\ resp.body.changes.visitors
                 = Delta(resp.body.unique_visitors, Cardinality({r.visitor_id : r \in P}))
            /\ resp.body.changes.pageviews
                 = Delta(resp.body.total_pageviews, SumCopies(P, events))
            /\ resp.body.changes.sessions
                 = Delta(resp.body.total_sessions, Cardinality({r.session_id : r \in P}))

\* The calendar days of a period's window, first and last.
FirstDay(period) == DateOf(WindowStart(period))
LastDay == DateOf(now - 1)

\* C9: the timeseries response of a site that has a pageview in the window
\* has exactly one row for each calendar day of the window, in ascending
\* date order, days without pageviews included.
C9_OneRowPerDay ==
    (resp.ep = "timeseries" /\ resp.status = 200 /\ SiteExists(resp.site)
        /\ InWindow(resp.site, resp.arg) # {}) =>
        /\ DOMAIN resp.body = 1 .. (LastDay - FirstDay(resp.arg) + 1)
        /\ \A i \in DOMAIN resp.body : resp.body[i].date = FirstDay(resp.arg) + i - 1

\* The pageviews a breakdown of the last response is computed over.
Counted == PageviewsSince(resp.site, WindowStart(resp.arg))

\* The distinct visitors of the rows a result row stands for.
PageVisitors(row) ==
    Cardinality({r.visitor_id : r \in {x \in Counted :
        x.path = row.path /\ (rev = "pg" => x.title = row.title)}})
SourceVisitors(row) ==
    Cardinality({r.visitor_id : r \in {x \in Counted :
        x.source = row.source /\ x.medium = row.medium}})
DeviceVisitors(row) ==
    Cardinality({r.visitor_id : r \in {x \in Counted : x.device_type = row.device_type}})
BrowserVisitors(row) ==
    Cardinality({r.visitor_id : r \in {x \in Counted : x.browser = row.browser}})

\* The rows of list q come in non-increasing order of rank.
NonIncreasing(q, rank(_)) ==
    \A i \in DOMAIN q : (i + 1) \in DOMAIN q => rank(q[i]) >= rank(q[i + 1])

\* The breakdowns by source+medium, device_type and browser list their rows
\* in non-increasing order of distinct visitors.
VisitorRanked ==
    /\ (resp.ep = "sources" /\ resp.status = 200) =>
           NonIncreasing(resp.body, SourceVisitors)
    /\ (resp.ep = "devices" /\ resp.status = 200) =>
           /\ NonIncreasing(resp.body.devices, DeviceVisitors)
           /\ NonIncreasing(resp.body.browsers, BrowserVisitors)

\* The pageviews of a pages row: the rows of its path (and title, in pg).
PageViews(row) ==
    SumCopies({x \in Counted :
        x.path = row.path /\ (rev = "pg" => x.title = row.title)}, events)

\* C10 as claimed: every breakdown, pages by path included, lists its rows
\* in non-increasing order of each row's distinct visitors.
C10_AllByVisitors ==
    /\ VisitorRanked
    /\ (resp.ep = "pages" /\ resp.status = 200) =>
           NonIncreasing(resp.body, PageVisitors)

\* C10 amended: sources, devices and browsers are listed in non-increasing
\* order of distinct visitors; pages are listed in non-increasing order of
\* pageviews.
C10_ByVisitorsPagesByViews ==
    /\ VisitorRanked
    /\ (resp.ep = "pages" /\ resp.status = 200) =>
           NonIncreasing(resp.body, PageViews)

\* C10's case: a pages response that lists a page before another page that
\* has more distinct visitors and no more pageviews.
C10_Witness ==
    /\ resp.ep = "pages"
    /\ resp.status = 200
    /\ 2 \in DOMAIN resp.body
    /\ PageViews(resp.body[1]) >= PageViews(resp.body[2])
    /\ PageVisitors(resp.body[1]) < PageVisitors(resp.body[2])

\* ---------------------------------------------------------- C11 - C13
H_google_com == <<"g", "o", "o", "g", "l", "e", ".", "c", "o", "m">>
H_fb_com == <<"f", "b", ".", "c", "o", "m">>

\* The rule table as the claims state it: hostnames of known social
\* networks, search engines and launch sites, each with its label.
KnownNetworks ==
    {[host |-> Host.facebook_com, source |-> Txt.facebook, medium |-> Txt.social],
     [host |-> H_fb_com, source |-> Txt.facebook, medium |-> Txt.social],
     [host |-> Host.x_com, source |-> Txt.twitter, medium |-> Txt.social],
     [host |-> Host.t_co, source |-> Txt.twitter, medium |-> Txt.social],
     [host |-> H_google_com, source |-> Txt.google, medium |-> Txt.organic],
     [host |-> Host.google_co_uk, source |-> Txt.google, medium |-> Txt.organic],
     [host |-> Host.bing_com, source |-> Txt.bing, medium |-> Txt.organic],
     [host |-> Host.producthunt_com, source |-> Txt.producthunt, medium |-> Txt.referral],
     [host |-> Host.news_ycombinator_com, source |-> Txt.hackernews, medium |-> Txt.referral]}

\* A hostname without a leading 'www.'.
StripLeadingWww(h) ==
    IF Len(h) >= 4 /\ SubSeq(h, 1, 4) = Txt.www THEN SubSeq(h, 5, Len(h)) ELSE h

\* The page was opened without UTM tags.
Untagged(search) == search.utm_source = NullText /\ search.utm_medium = NullText

\* C11: the classification the script sends follows the rule table: no
\* referrer and no UTM gives direct/none; a referrer whose hostname is a
\* known social network, search engine or launch site gets that entry's
\* source and medium (www.google.com: google/organic, news.ycombinator.com:
\* hackernews/referral); a referrer the URL parser rejects gives
\* unknown/unknown.
C11_RuleTable ==
    (sent.pc = "sent" /\ Untagged(sent.search)) =>
        /\ sent.ref.kind = "empty" =>
               sent.body.source = Txt.direct /\ sent.body.medium = Txt.none
        /\ sent.ref.kind = "malformed" =>
               sent.body.source = Txt.unknown /\ sent.body.medium = Txt.unknown
        /\ sent.ref.kind = "url" =>
               \A k \in KnownNetworks :
                   k.host = StripLeadingWww(sent.ref.hostname) =>
                       sent.body.source = k.source /\ sent.body.medium = k.medium

\* C12: a stored event that carries utm_source and utm_medium has exactly
\* those values as its source and medium, whatever its referrer was.
C12_UtmVerbatim ==
    \A r \in BagToSet(events) :
        (r.utm_source # NullText /\ r.utm_medium # NullText) =>
            r.source = r.utm_source /\ r.medium = r.utm_medium

\* C13: a well-formed referrer whose hostname, without a leading 'www.', is
\* none of the known networks is sent with that hostname as its source and
\* medium referral.
C13_OtherHostsAreReferrals ==
    (/\ sent.pc = "sent" /\ Untagged(sent.search) /\ sent.ref.kind = "url"
     /\ \A k \in KnownNetworks : k.host # StripLeadingWww(sent.ref.hostname)) =>
        /\ sent.body.source = StripLeadingWww(sent.ref.hostname)
        /\ sent.body.medium = Txt.referral

\* ---------------------------------------------------------- C14 - C16
\* The payments of site s made in the window of a period.
PaymentsInWindow(s, period) ==
    {q \in BagToSet(payments) : q.site_id = s /\ q.created_at >= WindowStart(period)}

RECURSIVE SumOfAmounts(_)
\* The sum of amount over the payments Q, each as often as it is stored.
SumOfAmounts(Q) ==
    IF Q = {} THEN 0
    ELSE LET q == CHOOSE x \in Q : TRUE
         IN  CopiesIn(q, payments) * q.amount + SumOfAmounts(Q \ {q})

RECURSIVE CountOfPayments(_)
CountOfPayments(Q) ==
    IF Q = {} THEN 0
    ELSE LET q == CHOOSE x \in Q : TRUE
         IN  CopiesIn(q, payments) + CountOfPayments(Q \ {q})

RECURSIVE SumOfRevenue(_)
\* The sum of revenue over the rows of a bySource list.
SumOfRevenue(rows) ==
    IF rows = <<>> THEN 0 ELSE Head(rows).revenue + SumOfRevenue(Tail(rows))

\* The last response is a revenue response for an existing site.
RevenueAnswered == resp.ep = "revenue" /\ resp.status = 200 /\ SiteExists(resp.site)

\* C14: the revenue of all bySource rows adds up to the amount of all
\* payments of the site in the window.
C14_BySourceSumsToPayments ==
    RevenueAnswered =>
        SumOfRevenue(resp.body.bySource)
            = SumOfAmounts(PaymentsInWindow(resp.site, resp.arg))

\* The events of the payer of q for q's site stamped at or before the payment.
EventsBefore(q) ==
    {e \in BagToSet(events) :
        /\ q.visitor_id # Undef /\ e.visitor_id = q.visitor_id
        /\ e.site_id = q.site_id /\ e.timestamp <= q.created_at}

\* The sources of the latest of those events (one source, unless two of the
\* latest events disagree).
LatestSources(q) ==
    {e.source : e \in {x \in EventsBefore(q) :
        \A y \in EventsBefore(q) : y.timestamp <= x.timestamp}}

\* The bySource rows the attribution rule gives for the attributed payments
\* of the window: per source, the amounts and the number of the payments
\* whose latest event at or before the payment has that source.
AttributedRows(s, period) ==
    LET Q == {q \in PaymentsInWindow(s, period) : Cardinality(LatestSources(q)) = 1}
    IN  {[source |-> src,
          revenue |-> SumOfAmounts({q \in Q : LatestSources(q) = {src}}),
          payments |-> CountOfPayments({q \in Q : LatestSources(q) = {src}})] :
            src \in UNION {LatestSources(q) : q \in Q}}

\* C15: each payment of the window is attributed to one source, that of the
\* payer's latest event at or before the payment: when every payment has
\* such an event, the bySource rows are exactly one row per such source
\* with the amounts added once and the payments counted once.
C15_LatestSource ==
    (/\ RevenueAnswered
     /\ \A q \in PaymentsInWindow(resp.site, resp.arg) :
            Cardinality(LatestSources(q)) = 1) =>
        {resp.body.bySource[i] : i \in DOMAIN resp.body.bySource}
            = AttributedRows(resp.site, resp.arg)

\* The payments of the window that no event can attribute: visitor_id is
\* null, or the site has no event of that visitor.
Unattributed(s, period) ==
    {q \in PaymentsInWindow(s, period) :
        q.visitor_id = Undef
        \/ ~\E e \in BagToSet(events) :
               e.visitor_id = q.visitor_id /\ e.site_id = q.site_id}

MatchAll(i) ==
    {v \in {e.visitor_id : e \in BagToSet(events)} :
        \A j \in 1 .. i :
            \E e \in BagToSet(events) :
                /\ e.visitor_id = v /\ e.site_id = resp.site
                /\ e.timestamp >= WindowStart(resp.arg.period) /\ e.timestamp < now
                /\ StepMatches(resp.arg.steps[j], e)}

\* d is the rounded percentage of num in den (halves rounded up).
IsRoundedPercent(d, num, den) ==
    /\ 2 * den * d <= 200 * num + den
    /\ 200 * num + den < 2 * den * (d + 1)

\* C17: a funnel of at least two steps answers one entry per step in input
\* order; the first count is the distinct visitors matching step 0 and its
\* drop-off 0; each later count is the visitors counted before who also
\* match the step, so counts never increase; each later drop-off is
\* round((count(i-1) - count(i)) / count(i-1) * 100), and count 0 with
\* drop-off 100 after a count of 0.  Counts 10 and 4 give drop-off 60.
C17_Funnel ==
    /\ (resp.ep = "funnel" /\ resp.status = 200) =>
           LET steps == resp.arg.steps
               b == resp.body
           IN  /\ Len(steps) >= 2
               /\ DOMAIN b = DOMAIN steps
               /\ \A i \in DOMAIN b :
                      /\ b[i].step_label = steps[i].value
                      /\ b[i].count = Cardinality(MatchAll(i))
               /\ b[1].dropoff_percent = 0
               /\ \A i \in DOMAIN b \ {1} :
                      /\ b[i].count <= b[i - 1].count
                      /\ b[i - 1].count = 0 =>
                             b[i].count = 0 /\ b[i].dropoff_percent = 100
                      /\ b[i - 1].count > 0 =>
                             IsRoundedPercent(b[i].dropoff_percent,
                                              b[i - 1].count - b[i].count,
                                              b[i - 1].count)
    /\ (resp.ep = "funnel" /\ Len(resp.arg.steps) < 2) => resp.status # 200
    /\ (calc.prev = 10 /\ calc.cur = 4) => calc.out = 60
    /\ (calc # NoCalc /\ calc.prev = 0) => calc.out = 100

\* C17's case: a three step funnel whose first step matched two visitors
\* and whose later steps lost one and then none.
C17_Witness ==
    /\ resp.ep = "funnel"
    /\ resp.status = 200
    /\ Len(resp.arg.steps) = 3
    /\ resp.body[1].count = 2
    /\ resp.body[2].count = 1
    /\ resp.body[2].dropoff_percent = 50
    /\ resp.body[3].dropoff_percent = 0

\* ------------------------------------------------------------------ C18
\* The events of visitor v for the response's site.
EventsOf(v) == {e \in BagToSet(events) : e.site_id = resp.site /\ e.visitor_id = v}

\* The visitors whose earliest event for the site falls in the week
\* starting at w.
FirstSeenIn(w) ==
    {v \in {e.visitor_id : e \in BagToSet(events)} :
        \E e \in EventsOf(v) :
            /\ \A x \in EventsOf(v) : e.timestamp <= x.timestamp
            /\ w <= e.timestamp /\ e.timestamp < w + Week}

\* The visitors of the cohort of week w with an event k weeks later.
ActiveLater(w, k) ==
    {v \in FirstSeenIn(w) :
        \E e \in EventsOf(v) :
            w + k * Week <= e.timestamp /\ e.timestamp < w + (k + 1) * Week}

\* C18: each visitor is counted in exactly one cohort, the calendar week of
\* their first-ever event for the site; each retention value is the rounded
\* percentage of the cohort's visitors active that many weeks later; no
\* cohort of size 0 is reported; 2 of 5 visitors give 40.
C18_Retention ==
    /\ (resp.ep = "retention" /\ resp.status = 200) =>
           /\ \A c \in resp.body :
                  /\ c.cohort_size > 0
                  /\ c.cohort_week % Week = 0
                  /\ c.cohort_size = Cardinality(FirstSeenIn(c.cohort_week))
                  /\ \A d \in resp.body : d.cohort_week = c.cohort_week => d = c
                  /\ \A k \in DOMAIN c.retention :
                         IsRoundedPercent(c.retention[k],
                                          Cardinality(ActiveLater(c.cohort_week, k)),
                                          c.cohort_size)
                  /\ \A k \in 0 .. RetentionWeeks :
                         ActiveLater(c.cohort_week, k) # {} => k \in DOMAIN c.retention
           /\ \A v \in {e.visitor_id : e \in BagToSet(events)} :
                  \A e \in EventsOf(v) :
                      (/\ \A x \in EventsOf(v) : e.timestamp <= x.timestamp
                       /\ e.timestamp >= now - RetentionWeeks * Week)
                      => \E c \in resp.body : v \in FirstSeenIn(c.cohort_week)
    /\ (calc # NoCalc /\ calc.prev = 5 /\ calc.cur = 2) => calc.out = 40

\* C18's case: a cohort of two visitors first seen last week, one of them
\* active again one week later, is reported with retention 50, next to this
\* week's cohort of one.
C18_Witness ==
    /\ resp.ep = "retention"
    /\ resp.status = 200
    /\ Cardinality(resp.body) = 2
    /\ \E c \in resp.body :
           /\ c.cohort_size = 2
           /\ DOMAIN c.retention = {0, 1}
           /\ c.retention[0] = 100
           /\ c.retention[1] = 50

\* ------------------------------------------------------------------ C19
\* A step that only answers a request.
ReadStep ==
    /\ resp' # resp
    /\ UNCHANGED <<rev, now, users, sites, nextSite, events, payments, del, calc, sent, browser>>

\* The last response answers its caller about a site the caller owns (the
\* sqlite revision has no owners: any existing site) that has no event and
\* no payment stamped from the start of the asked window up to now.
EmptyOwnedSiteAsked ==
    /\ resp.ep \in {"stats", "timeseries", "pages", "sources", "revenue"}
    /\ SiteExists(resp.site)
    /\ rev = "pg" => \A x \in SiteRow(resp.site) : x.user_id = resp.user
    /\ \A r \in BagToSet(events) :
           r.site_id = resp.site =>
               (r.timestamp = NoTs \/ r.timestamp < WindowStart(resp.arg) \/ r.timestamp > now)
    /\ \A q \in BagToSet(payments) :
           q.site_id = resp.site => q.created_at < WindowStart(resp.arg)

\* The response is a success carrying zero counts or no rows.
ZeroAnswer ==
    /\ resp.status = 200
    /\ resp.ep = "stats" =>
           /\ resp.body.unique_visitors = 0
           /\ resp.body.total_pageviews = 0
           /\ resp.body.total_sessions = 0
    /\ resp.ep \in {"timeseries", "pages", "sources"} => resp.body = <<>>
    /\ resp.ep = "revenue" => resp.body.stats = <<>> /\ resp.body.bySource = <<>>

\* C19: every aggregation endpoint asked by the owner about a site with no
\* event and no payment in the window answers with success: stats with 0
\* unique visitors, 0 pageviews and 0 sessions, and timeseries, pages,
\* sources and revenue with empty or zero-valued structures.
C19_EmptySiteZero ==
    [][(ReadStep /\ EmptyOwnedSiteAsked') => ZeroAnswer']_vars

\* ------------------------------------------------------------------ C20
ReadEndpoints ==
    {"sites", "site", "stats", "timeseries", "pages", "sources", "devices",
     "realtime", "revenue"}

\* Some stored event row has more copies after the step than before.
GainsEvents ==
    \E r \in BagToSet(events') : CopiesIn(r, events') > CopiesIn(r, events)

\* C20: a step that answers a read endpoint (site list, site details,
\* stats, timeseries, pages, sources, devices, realtime, revenue) leaves the
\* stored sites, events and payments as they were; no step replaces a
\* stored event by another; and stored events of a site disappear only in a
\* delete that removes the site (for the pg handler, which deletes in two
\* awaited statements: in a delete still in flight or one that removes the
\* site).
C20_ReadsAndEventsFrame ==
    [][/\ (resp' # resp /\ resp'.ep \in ReadEndpoints) =>
              UNCHANGED <<sites, events, payments>>
       /\ \A s \in SiteIds :
              LosesEvents(s) =>
                  /\ ~GainsEvents
                  /\ (\A x \in sites' : x.id # s) \/ del'.pc = "site"]_vars

\* ------------------------------------------------------------------ C21
\* The columns of a stored event other than the raw payload.
NamedColumns(r) == [k \in DOMAIN r \ {"event_data"} |-> r[k]]

\* The payload without its extra members.
WithoutExtra(p) == [p EXCEPT !.extra = <<>>]

\* C21: a /collect payload with extra members that would be accepted
\* without them is accepted; the stored event has the named columns it
\* would have without them; and its raw payload parses back to the payload
\* received, extra members included.
C21_RawPayloadRoundTrip ==
    (/\ resp.ep = "collect"
     /\ DOMAIN resp.arg.extra # {}
     /\ InsertAccepted(EventRow(WithoutExtra(resp.arg)))) =>
        /\ resp.status = 200
        /\ \E r \in BagToSet(events) :
               /\ NamedColumns(r) = NamedColumns(EventRow(WithoutExtra(resp.arg)))
               /\ JSONparse(r.event_data) = resp.arg

\* ------------------------------------------------------------------ C22
\* C22: the events the script sends from one browser profile all carry the
\* same visitor_id; those of one visit carry the same session_id, and those
\* of different visits different session_ids.
C22_StableIds ==
    \A i \in DOMAIN browser.log, j \in DOMAIN browser.log :
        LET a == browser.log[i]
            b == browser.log[j]
        IN  /\ a.visitor_id = b.visitor_id
            /\ a.visit = b.visit => a.session_id = b.session_id
            /\ a.visit # b.visit => a.session_id # b.session_id

\* ------------------------------------------------------------------ C23
\* The step sends an event.
Sends == Len(browser'.log) > Len(browser.log)

\* Do Not Track is on in the browser (navigator.doNotTrack or
\* window.doNotTrack is '1').
DoNotTrackOn == browser.navDnt \/ browser.winDnt

CrawlerAgents == {"googlebot", "adsbot"}

\* C23: no step of the script (page load, navigation, click, unload, public
\* API call) sends an event while Do Not Track is on and respectDNT is at
\* its default, for a bot user agent, on localhost or 127.0.0.1, or while no
\* site id is configured.
C23_NothingSentWhenBlocked ==
    [][Sends =>
          /\ ~(DoNotTrackOn' /\ browser'.config.respectDNT)
          /\ browser'.ua \notin CrawlerAgents
          /\ browser'.hostname \notin {"localhost", "127.0.0.1"}
          /\ browser'.config.siteId # NoSite]_vars

\* C23's case: with Do Not Track on, a page that configures a site id has
\* loaded in a second visit and nothing has been sent.
C23_Witness ==
    /\ DoNotTrackOn
    /\ browser.config.respectDNT
    /\ browser.config.siteId = 1
    /\ browser.loaded
    /\ browser.visit = 2
    /\ browser.log = <<>>

\* ------------------------------------------------------------------ C26
PublicCallers == {"track", "trackGoal", "trackPageview", "identify", "revenue"}

\* C26: an event sent by TrackFlow.track has event_type 'event', and an
\* event sent by any public API call carries the configured site id and the
\* browser's visitor id and session id, whatever the caller's object holds.
C26_ApiKeepsIdentity ==
    [][(Sends /\ sent'.caller \in PublicCallers) =>
          /\ sent'.caller = "track" => sent'.body.event_type = "event"
          /\ sent'.body.site_id = browser'.config.siteId
          /\ sent'.body.visitor_id = browser'.visitor
          /\ sent'.body.session_id = browser'.session]_vars


\* ---------------------------------------------------------------- C24
\* No two rows of a pages response name the same path.
OnePathEach(body) ==
    \A i, j \in DOMAIN body : body[i].path = body[j].path => i = j

\* No two rows of a sources response name the same source and medium.
OneSourceEach(body) ==
    \A i, j \in DOMAIN body :
        (body[i].source = body[j].source /\ body[i].medium = body[j].medium)
            => i = j

\* C24: in a pages response each path is in at most one row, and in a
\* sources response each (source, medium) pair is in at most one row,
\* whatever titles the events carry.
C24_OneRowPerKey ==
    /\ (resp.ep = "pages" /\ resp.status = 200) => OnePathEach(resp.body)
    /\ (resp.ep = "sources" /\ resp.status = 200) =>
           OneSourceEach(resp.body)


\* ---------------------------------------------------------------- C25
\* The step ends a delete that went past the ownership check: it answers
\* success or failure.
DeleteEnds == resp'.ep = "deleteSite" /\ resp'.status \in {200, 500}

\* The delete that ends in this step has deleted events of its site: in its
\* earlier statement (pg) or in this step (sqlite).
DeletedEvents ==
    IF rev = "pg" THEN del.pc = "site" /\ del.removed
    ELSE LosesEvents(resp'.site)

\* C25: however a DELETE of a site by its owner interleaves with /collect
\* calls for the site, and with or without payments of the site, the delete
\* is all or nothing: when it reports success the site's row and all of the
\* site's events are gone, and when it reports failure it has deleted no
\* event of the site.
C25_DeleteAllOrNothing ==
    [][DeleteEnds =>
          IF resp'.status = 200
          THEN /\ \A x \in sites' : x.id # resp'.site
               /\ \A r \in BagToSet(events') : r.site_id # resp'.site
          ELSE ~DeletedEvents]_vars


\* ---------------------------------------------------------------- C27
\* The step answers a DELETE of an existing site sent by an authenticated
\* caller who is not the site's owner.
NonOwnerDeletes ==
    /\ resp'.ep = "deleteSite"
    /\ Authenticated(resp'.user)
    /\ SiteExists(resp'.site)
    /\ \A x \in SiteRow(resp'.site) : x.user_id # resp'.user

\* C27: a DELETE of a site by an authenticated user who does not own it is
\* answered with an error and leaves the stored sites, events and payments
\* as they were; and a site list holds only sites whose owner is the user
\* it answers.
C27_NonOwnerCannotDelete ==
    [][/\ NonOwnerDeletes =>
              /\ resp'.status >= 400
              /\ UNCHANGED <<sites, events, payments>>
       /\ (resp'.ep = "sites" /\ resp'.status = 200) =>
              \A x \in resp'.body : x.user_id = resp'.user]_vars

====
